---- MODULE Spec2Model ----
(***************************************************************************)
(* A model of the array kernels of numba/targets/arraymath.py.             *)
(*                                                                         *)
(* Every kernel is a sequential function of its arguments, so the state    *)
(* is one call: the operation, its arguments, its result and whether it    *)
(* has run.  Arrays are functions over 0..n-1, as the code indexes them.   *)
(* Floating-point values are modelled by the integers 0..MaxVal with exact *)
(* arithmetic, plus one value NaN that is unordered.                       *)
(***************************************************************************)
EXTENDS Integers, Sequences, FiniteSets, TLC

VARIABLES op, args, ret, pc

vars == <<op, args, ret, pc>>

(***************************************************************************)
(* Bounds of the model.                                                    *)
(***************************************************************************)
MaxLen == 4
MaxVal == 2

(***************************************************************************)
(* Values.                                                                 *)
(***************************************************************************)
NaN == MaxVal + 1
PosInf == MaxVal + 2
NegInf == 0 - PosInf
Nums == 0..MaxVal
Vals == Nums \cup {NaN}
XVals == Vals \cup {PosInf, NegInf}

isnan(x) == x = NaN
isfinite(x) == x \notin {NaN, PosInf, NegInf}

\* Results of float arithmetic are exact rationals <<num, den>> with den > 0;
\* den = 0 marks the non-finite results.
RNaN == <<0, 0>>
RPosInf == <<1, 0>>
RNegInf == <<0 - 1, 0>>

ToRat(x) ==
    IF isnan(x) THEN RNaN
    ELSE IF x = PosInf THEN RPosInf
    ELSE IF x = NegInf THEN RNegInf
    ELSE <<x, 1>>

RIsNaN(r) == r = RNaN
RIsFinite(r) == r[2] # 0

\* r + s
RAdd(r, s) ==
    IF RIsNaN(r) \/ RIsNaN(s) THEN RNaN
    ELSE IF ~RIsFinite(r) /\ ~RIsFinite(s) THEN (IF r = s THEN r ELSE RNaN)
    ELSE IF ~RIsFinite(r) THEN r
    ELSE IF ~RIsFinite(s) THEN s
    ELSE <<r[1] * s[2] + s[1] * r[2], r[2] * s[2]>>

\* r * c / d for integers c >= 0 and d > 0
RScale(r, c, d) ==
    IF RIsNaN(r) THEN RNaN
    ELSE IF ~RIsFinite(r) THEN (IF c = 0 THEN RNaN ELSE r)
    ELSE <<r[1] * c, r[2] * d>>

\* Equality of results as numbers (NaN equals nothing, as in IEEE 754).
REq(r, s) ==
    IF RIsNaN(r) \/ RIsNaN(s) THEN FALSE
    ELSE IF ~RIsFinite(r) \/ ~RIsFinite(s) THEN r = s
    ELSE r[1] * s[2] = s[1] * r[2]

\* All arrays of length 0..n over the set S, indexed from 0.
Arrays(S, n) == UNION {[0..(m - 1) -> S] : m \in 0..n}

len(a) == Cardinality(DOMAIN a)

\* Python's a < b on floats: false as soon as one side is NaN.
less_than(a, b) == IF isnan(a) \/ isnan(b) THEN FALSE ELSE a < b

nan_aware_less_than(a, b) ==
    IF isnan(a) THEN FALSE
    ELSE IF isnan(b) THEN TRUE
    ELSE a < b

\* The comparator a factory was instantiated with: w selects the NaN-aware one.
pivotimpl(w, a, b) == IF w THEN nan_aware_less_than(a, b) ELSE less_than(a, b)

\* A[i], A[j] = A[j], A[i]
Swap(A, i, j) == [A EXCEPT ![i] = A[j], ![j] = A[i]]

(***************************************************************************)
(* _partition                                                              *)
(***************************************************************************)
RECURSIVE ScanUp(_, _, _, _, _)
\* while i < high and pivotimpl(A[i], pivot): i += 1
ScanUp(w, A, pivot, high, i) ==
    IF i < high /\ pivotimpl(w, A[i], pivot)
    THEN ScanUp(w, A, pivot, high, i + 1)
    ELSE i

RECURSIVE ScanDown(_, _, _, _, _)
\* while j >= low and pivotimpl(pivot, A[j]): j -= 1
ScanDown(w, A, pivot, low, j) ==
    IF j >= low /\ pivotimpl(w, pivot, A[j])
    THEN ScanDown(w, A, pivot, low, j - 1)
    ELSE j

RECURSIVE PartitionLoop(_, _, _, _, _, _, _)
\* The "while True" loop of _partition; yields the array and the final i
\* and j, where the two scans stopped.
PartitionLoop(w, A, pivot, low, high, i, j) ==
    LET i2 == ScanUp(w, A, pivot, high, i)
        j2 == ScanDown(w, A, pivot, low, j)
    IN  IF i2 >= j2
        THEN [A |-> A, i |-> i2, j |-> j2]
        ELSE PartitionLoop(w, Swap(A, i2, j2), pivot, low, high, i2 + 1, j2 - 1)

\* if pivotimpl(A[x], A[y]): A[y], A[x] = A[x], A[y]
SwapIfLess(w, A, x, y) == IF pivotimpl(w, A[x], A[y]) THEN Swap(A, y, x) ELSE A

\* A partitioning that leaves the pivot at high.
PivotBackNever(r, high) == r

\* Put the pivot back in its final place: A[i], A[high] = A[high], A[i]
PivotBack(r, high) == [A |-> Swap(r.A, r.i, high), i |-> r.i, j |-> r.j]

\* A3 holds the median of three at mid: take it as the pivot, move it to
\* high, and partition from i = low, j = high - 1.
PartitionAround(w, A3, low, high, mid) ==
    PivotBack(PartitionLoop(w, Swap(A3, high, mid), A3[mid], low, high,
                            low, high - 1), high)

MedianOfThree(w, A, low, high, mid) ==
    SwapIfLess(w, SwapIfLess(w, SwapIfLess(w, A, mid, low), high, mid), mid, low)

_partition(w, A, low, high) ==
    PartitionAround(w, MedianOfThree(w, A, low, high, (low + high) \div 2),
                    low, high, (low + high) \div 2)

(***************************************************************************)
(* _select, _select_two                                                    *)
(***************************************************************************)
RECURSIVE SelectLoop(_, _, _, _, _, _)
\* The loop of _select after a call of the partition routine on [low, high]
\* gave p = (array, i): while i != k, narrow to the side of i that holds k
\* and partition again.  np counts the calls of the partition routine.
SelectLoop(w, p, k, low, high, np) ==
    IF p.i = k THEN [A |-> p.A, val |-> p.A[k], np |-> np]
    ELSE IF p.i < k
         THEN SelectLoop(w, _partition(w, p.A, p.i + 1, high), k, p.i + 1, high, np + 1)
         ELSE SelectLoop(w, _partition(w, p.A, low, p.i - 1), k, low, p.i - 1, np + 1)

\* A _select that partitions once and never narrows.
SelectOnce(w, arry, k, low, high) ==
    [A |-> _partition(w, arry, low, high).A,
     val |-> _partition(w, arry, low, high).A[k], np |-> 1]

\* The result: the array as left behind, the value arry[k], the partition count.
_select(w, arry, k, low, high) ==
    SelectLoop(w, _partition(w, arry, low, high), k, low, high, 1)

\* What _select_two returns once the selection s of the second element ran.
SelectTwoResult(s, k, np) ==
    [raised |-> "none", A |-> s.A, a |-> s.A[k], b |-> s.A[k + 1], np |-> np + s.np]

RECURSIVE SelectTwoLoop(_, _, _, _, _)
RECURSIVE SelectTwoStep(_, _, _, _, _)
\* A _select_two that, once the pivot lands on k or k + 1, does not select
\* the other element.
SelectTwoStepNoSecond(p, k, low, high, np) ==
    IF p.i < k THEN SelectTwoLoop(p.A, k, p.i + 1, high, np)
    ELSE IF p.i > k + 1 THEN SelectTwoLoop(p.A, k, low, p.i - 1, np)
    ELSE [raised |-> "none", A |-> p.A, a |-> p.A[k], b |-> p.A[k + 1], np |-> np]

\* One iteration of "while True" in _select_two, after _partition gave p.
SelectTwoStep(p, k, low, high, np) ==
    IF p.i < k THEN SelectTwoLoop(p.A, k, p.i + 1, high, np)
    ELSE IF p.i > k + 1 THEN SelectTwoLoop(p.A, k, low, p.i - 1, np)
    ELSE IF p.i = k
         THEN SelectTwoResult(_select(FALSE, p.A, k + 1, p.i + 1, high), k, np)
         ELSE SelectTwoResult(_select(FALSE, p.A, k, low, p.i - 1), k, np)

\* raised is "AssertionError" when the assertion high > low fails, which is
\* before the partitioning of that iteration.
SelectTwoLoop(arry, k, low, high, np) ==
    IF ~(high > low)
    THEN [raised |-> "AssertionError", A |-> arry, a |-> NaN, b |-> NaN, np |-> np]
    ELSE SelectTwoStep(_partition(FALSE, arry, low, high), k, low, high, np + 1)

_select_two(arry, k, low, high) == SelectTwoLoop(arry, k, low, high, 0)

(***************************************************************************)
(* Reductions: min, max, argmin (the branch for real, non-datetime dtypes). *)
(* A kernel's result records what it raised, its value, the number of      *)
(* arrays it allocated (allocs), the number of calls of the partition      *)
(* routine (np) and the selection routines it entered (sel).               *)
(***************************************************************************)
Raise(exc, allocs, np, sel) ==
    [raised |-> exc, val |-> RNaN, allocs |-> allocs, np |-> np, sel |-> sel]

Return(val, allocs, np, sel) ==
    [raised |-> "none", val |-> val, allocs |-> allocs, np |-> np, sel |-> sel]

RECURSIVE MinLoop(_, _, _)
\* for view in it: if v < min_value: min_value = v
MinLoop(arry, i, min_value) ==
    IF i >= len(arry) THEN min_value
    ELSE MinLoop(arry, i + 1,
                 IF less_than(arry[i], min_value) THEN arry[i] ELSE min_value)

array_min_impl(arry) ==
    IF len(arry) = 0 THEN Raise("ValueError", 0, 0, {})
    ELSE Return(MinLoop(arry, 1, arry[0]), 0, 0, {})

RECURSIVE MaxLoop(_, _, _)
\* for view in it: if v > max_value: max_value = v
MaxLoop(arry, i, max_value) ==
    IF i >= len(arry) THEN max_value
    ELSE MaxLoop(arry, i + 1,
                 IF less_than(max_value, arry[i]) THEN arry[i] ELSE max_value)

array_max_impl(arry) ==
    IF len(arry) = 0 THEN Raise("ValueError", 0, 0, {})
    ELSE Return(MaxLoop(arry, 1, arry[0]), 0, 0, {})

RECURSIVE ArgminLoop(_, _, _, _)
\* for v in arry.flat: if v < min_value: min_value = v; min_idx = idx
ArgminLoop(arry, idx, min_value, min_idx) ==
    IF idx >= len(arry) THEN min_idx
    ELSE IF less_than(arry[idx], min_value)
         THEN ArgminLoop(arry, idx + 1, arry[idx], idx)
         ELSE ArgminLoop(arry, idx + 1, min_value, min_idx)

array_argmin_impl(arry) ==
    IF len(arry) = 0 THEN Raise("ValueError", 0, 0, {})
    ELSE Return(ArgminLoop(arry, 0, arry[0], 0), 0, 0, {})

(***************************************************************************)
(* median, nanmedian                                                       *)
(***************************************************************************)
\* (a + b) / 2 of the pair r that _select_two returned, or its exception.
MedianOfTwo(r, allocs) ==
    IF r.raised # "none"
    THEN Raise(r.raised, allocs, r.np, {"_select_two"})
    ELSE Return(RScale(RAdd(ToRat(r.a), ToRat(r.b)), 1, 2),
                allocs, r.np, {"_select_two", "_select"})

MedianOfOne(r, allocs) == Return(ToRat(r.val), allocs, r.np, {"_select"})

\* A _median_inner that takes the single middle element whatever n is.
MedianInnerOddOnly(temp_arry, n, allocs) ==
    IF n = 0 THEN Raise("AssertionError", allocs, 0, {"_select_two"})
    ELSE MedianOfOne(_select(FALSE, temp_arry, n \div 2, 0, n - 1), allocs)

\* _median_inner(temp_arry, n), entered with `allocs` arrays allocated:
\* low = 0, high = n - 1, half = n >> 1.
_median_inner(temp_arry, n, allocs) ==
    IF n % 2 = 0
    THEN MedianOfTwo(_select_two(temp_arry, (n \div 2) - 1, 0, n - 1), allocs)
    ELSE MedianOfOne(_select(FALSE, temp_arry, n \div 2, 0, n - 1), allocs)

\* temp_arry = a.flatten() is the one allocation; n = temp_arry.shape[0]
median_impl(a) == _median_inner(a, len(a), 1)

RECURSIVE NonNaN(_, _, _)
\* The prefix temp_arry[0..n-1] that nanmedian fills with the non-NaN items.
NonNaN(a, i, temp) ==
    IF i >= len(a) THEN temp
    ELSE IF isnan(a[i]) THEN NonNaN(a, i + 1, temp)
    ELSE NonNaN(a, i + 1, [j \in 0..len(temp) |-> IF j < len(temp) THEN temp[j] ELSE a[i]])

\* A nanmedian without its "all NaNs" return.
NanmedianNoEmptyCheck(temp_arry, n) == _median_inner(temp_arry, n, 1)

\* After the loop that copies the non-NaN items into temp_arry.
NanmedianOf(temp_arry, n) ==
    IF n = 0 THEN Return(RNaN, 1, 0, {})
    ELSE _median_inner(temp_arry, n, 1)

nanmedian_impl(a) == NanmedianOf(NonNaN(a, 0, <<>>), len(NonNaN(a, 0, <<>>)))

(***************************************************************************)
(* partition (1-D input)                                                   *)
(***************************************************************************)
Abs(x) == IF x < 0 THEN 0 - x ELSE x

\* np.unique of the normalized kth values: ascending, without duplicates.
RECURSIVE SortedSeqOf(_)
SortedSeqOf(S) ==
    IF S = {} THEN <<>>
    ELSE LET m == CHOOSE x \in S : \A y \in S : x <= y
         IN  <<m>> \o SortedSeqOf(S \ {m})

\* A validation that keeps the first requested index only.
ValidKthsFirstOnly(a, kth) ==
    IF \E i \in DOMAIN kth : Abs(kth[i]) >= len(a)
    THEN [raised |-> "ValueError", kths |-> <<>>]
    ELSE [raised |-> "none",
          kths |-> <<IF kth[1] < 0 THEN kth[1] + len(a) ELSE kth[1]>>]

\* valid_kths(a, kth): "raise" when some |kth| >= len(a).
valid_kths(a, kth) ==
    IF \E i \in DOMAIN kth : Abs(kth[i]) >= len(a)
    THEN [raised |-> "ValueError", kths |-> <<>>]
    ELSE [raised |-> "none",
          kths |-> SortedSeqOf({IF kth[i] < 0 THEN kth[i] + len(a) ELSE kth[i] :
                                  i \in DOMAIN kth})]

\* The array a selection left behind and the partitionings run so far.
SelectCounted(np, s) == [A |-> s.A, np |-> np + s.np]

RECURSIVE PartitionKths(_, _, _, _, _)
\* for kth in kth_array: _select_w_nan(arry, kth, low, high); low = kth
\* r is the state after the previous selection (array, partition count).
PartitionKths(r, kth_array, j, low, high) ==
    IF j > Len(kth_array) THEN r
    ELSE PartitionKths(
            SelectCounted(r.np, _select(TRUE, r.A, kth_array[j], low, high)),
            kth_array, j + 1, kth_array[j], high)

PartitionResult(r, allocs) == Return(r.A, allocs, r.np, {"_select_w_nan"})

\* out = np.empty_like(a); arry = a.copy(); low = 0; high = len(arry) - 1
np_partition_impl_inner(a, kth_array, allocs) ==
    PartitionResult(PartitionKths([A |-> a, np |-> 0], kth_array, 1, 0, len(a) - 1),
                    allocs + 2)

PartitionValid(a, v) ==
    IF v.raised # "none" THEN Raise(v.raised, 1, 0, {})
    ELSE np_partition_impl_inner(a, v.kths, 3)

np_partition_impl(a, kth) ==
    IF len(a) = 0 THEN Return(a, 1, 0, {})
    ELSE PartitionValid(a, valid_kths(a, kth))

(***************************************************************************)
(* percentile, nanpercentile, quantile, nanquantile                        *)
(* A rank is an integer number of hundredths of the upper bound of its     *)
(* operation: percent for percentile (bound 100.0, factor 1.0), hundredths *)
(* for quantile (bound 1.0, factor 100.0); NaN is the NaN rank.            *)
(***************************************************************************)
\* A rank check without the NaN test.
CheckValidNoNaN(q, q_upper_bound) ==
    ~\E i \in DOMAIN q : q[i] < 0 \/ q[i] > q_upper_bound

\* check_valid(q, q_upper_bound), the bound in the unit of q
check_valid(q, q_upper_bound) ==
    ~\E i \in DOMAIN q : q[i] < 0 \/ q[i] > q_upper_bound \/ isnan(q[i])

AllFinite(a) == \A j \in DOMAIN a : isfinite(a[j])
CountOf(a, v) == Cardinality({j \in DOMAIN a : a[j] = v})

\* percentile == 100: val = np.max(a), NaN when a non-finite maximum
PctMax(st) ==
    IF len(st.a) = 0 THEN [st EXCEPT !.raised = "ValueError"]
    ELSE [st EXCEPT !.val =
            IF ~AllFinite(st.a) /\ ~isfinite(MaxLoop(st.a, 1, st.a[0]))
            THEN RNaN ELSE ToRat(MaxLoop(st.a, 1, st.a[0]))]

\* The heuristics for percentile == 0 on an array with non-finite items.
MinIsNaN(n, num_pos_inf, num_neg_inf, num_finite) ==
    \/ num_finite = 0
    \/ num_pos_inf = 1 /\ n = 2
    \/ num_neg_inf > 1
    \/ num_finite = 1 /\ num_pos_inf > 1 /\ num_neg_inf # 1

\* A percentile == 0 that takes the first item without a scan.
PctMinFirstItem(st) ==
    IF len(st.a) = 0 THEN [st EXCEPT !.raised = "ValueError"]
    ELSE [st EXCEPT !.val = ToRat(st.a[0])]

\* percentile == 0: val = np.min(a)
PctMin(st) ==
    IF len(st.a) = 0 THEN [st EXCEPT !.raised = "ValueError"]
    ELSE [st EXCEPT !.val =
            IF ~AllFinite(st.a)
               /\ MinIsNaN(len(st.a), CountOf(st.a, PosInf), CountOf(st.a, NegInf),
                           len(st.a) - (CountOf(st.a, NegInf) + CountOf(st.a, PosInf)))
            THEN RNaN ELSE ToRat(MinLoop(st.a, 1, st.a[0]))]

\* val = lower * (1 - m) + upper * m with m = mnum / 100, after _select_two
\* returned r.
PctInterpVal(st, r, mnum) ==
    IF r.raised # "none"
    THEN [st EXCEPT !.raised = r.raised, !.np = st.np + r.np,
                    !.sel = st.sel \cup {"_select_two"}]
    ELSE [st EXCEPT !.a = r.A, !.np = st.np + r.np,
                    !.sel = st.sel \cup {"_select_two", "_select"},
                    !.val = RAdd(RScale(ToRat(r.a), 100 - mnum, 100),
                                 RScale(ToRat(r.b), mnum, 100))]

\* An interpolation that drops the fraction m of the rank.
PctInterpNoFraction(st, rank100) ==
    PctInterpVal(st, _select_two(st.a, (rank100 \div 100) - 1, 0, len(st.a) - 1), 0)

\* rank = 1 + (n - 1) * percentile / 100; f = floor(rank); m = rank - f;
\* rank100 is rank * 100.
PctInterp(st, rank100) ==
    PctInterpVal(st, _select_two(st.a, (rank100 \div 100) - 1, 0, len(st.a) - 1),
                 rank100 % 100)

\* One iteration of the loop over q: the value for percentile p.
PctOne(st, p) ==
    IF p = 100 THEN PctMax(st)
    ELSE IF p = 0 THEN PctMin(st)
    ELSE PctInterp(st, 100 + (len(st.a) - 1) * p)

\* out[i] = val
PctStore(st, i) ==
    IF st.raised # "none" THEN st
    ELSE [st EXCEPT !.out = [j \in DOMAIN st.out |-> IF j = i THEN st.val ELSE st.out[j]]]

RECURSIVE PctLoop(_, _, _)
\* for i in range(len(q))
PctLoop(st, q, i) ==
    IF i >= len(q) \/ st.raised # "none" THEN st
    ELSE PctLoop(PctStore(PctOne(st, q[i]), i), q, i + 1)

PctState(a, out) ==
    [a |-> a, out |-> out, val |-> RNaN, raised |-> "none", np |-> 0, sel |-> {}]

\* np.empty(len(q)): the items are overwritten before they are read.
EmptyOut(q) == [j \in DOMAIN q |-> RNaN]

_collect_percentiles_inner(a, q) ==
    IF len(a) = 1
    THEN PctState(a, [j \in DOMAIN q |-> ToRat(a[0])])
    ELSE PctLoop(PctState(a, EmptyOut(q)), q, 0)

\* a[~nan_mask]
RECURSIVE Compress(_, _, _)
Compress(a, i, temp) ==
    IF i >= len(a) THEN temp
    ELSE IF isnan(a[i]) THEN Compress(a, i + 1, temp)
    ELSE Compress(a, i + 1, [j \in 0..len(temp) |-> IF j < len(temp) THEN temp[j] ELSE a[i]])

\* The tail of _can_collect_percentiles, on the array it looks at.
CanCollectTail(a) == IF len(a) = 1 THEN isfinite(a[0]) ELSE TRUE

_can_collect_percentiles(a, skip_nan) ==
    IF skip_nan
    THEN (IF len(Compress(a, 0, <<>>)) = 0 THEN FALSE
          ELSE CanCollectTail(Compress(a, 0, <<>>)))
    ELSE (IF \E j \in DOMAIN a : isnan(a[j]) THEN FALSE
          ELSE CanCollectTail(a))

PctResult(st, allocs) ==
    IF st.raised # "none" THEN Raise(st.raised, allocs, st.np, st.sel)
    ELSE Return(st.out, allocs, st.np, st.sel)

\* q = q * factor, back in percent whatever the unit of q was
ScaleRanks(q, factor, unit) == [j \in DOMAIN q |-> (q[j] * factor) \div unit]

\* _collect_percentiles(a, q, check_q, factor, skip_nan); the arrays
\* allocated are q flattened, q * factor, a flattened, nan_mask and then
\* either a[~nan_mask] and out, or the array of NaN.
_collect_percentiles(a, q, q_upper_bound, factor, unit, skip_nan) ==
    IF ~check_valid(q, q_upper_bound) THEN Raise("ValueError", 1, 0, {})
    ELSE IF _can_collect_percentiles(a, skip_nan)
         THEN PctResult(_collect_percentiles_inner(Compress(a, 0, <<>>),
                                                   ScaleRanks(q, factor, unit)), 6)
         ELSE Return([j \in DOMAIN q |-> RNaN], 5, 0, {})

np_percentile(a, q) == _collect_percentiles(a, q, 100, 1, 1, FALSE)
np_nanpercentile(a, q) == _collect_percentiles(a, q, 100, 1, 1, TRUE)
np_quantile(a, q) == _collect_percentiles(a, q, 100, 100, 100, FALSE)
np_nanquantile(a, q) == _collect_percentiles(a, q, 100, 100, 100, TRUE)

(***************************************************************************)
(* The caller's array.  A kernel works on an array obtained from the       *)
(* caller's one: a.flatten(), a.copy(), a[~mask], X.astype(dtype) and      *)
(* np.empty(...) are new arrays, a view shares the caller's data.           *)
(***************************************************************************)
\* A working array that is the caller's own data.
CallerAfterShared(how, a, t) == t

\* The caller's array a after the kernel left its working array as t.
CallerAfter(how, a, t) == IF how = "view" THEN t ELSE a

\* temp_arry after _median_inner(temp_arry, n)
MedianTemp(temp_arry, n) ==
    IF n % 2 = 0 THEN _select_two(temp_arry, (n \div 2) - 1, 0, n - 1).A
    ELSE _select(FALSE, temp_arry, n \div 2, 0, n - 1).A

\* temp_arry of nanmedian: only filled when every item is NaN
NanmedianTemp(temp_arry) ==
    IF len(temp_arry) = 0 THEN temp_arry ELSE MedianTemp(temp_arry, len(temp_arry))

\* arry = a[s].copy() after the selections of np_partition_impl_inner
PartitionTempOf(a, v) ==
    IF v.raised # "none" THEN a
    ELSE PartitionKths([A |-> a, np |-> 0], v.kths, 1, 0, len(a) - 1).A

PartitionTemp(a, kth) == IF len(a) = 0 THEN a ELSE PartitionTempOf(a, valid_kths(a, kth))

\* temp_arry[~nan_mask] after _collect_percentiles_inner
PercentileTemp(a, q, q_upper_bound, factor, unit, skip_nan) ==
    IF ~check_valid(q, q_upper_bound) THEN a
    ELSE IF _can_collect_percentiles(a, skip_nan)
         THEN _collect_percentiles_inner(Compress(a, 0, <<>>), ScaleRanks(q, factor, unit)).a
         ELSE a

(***************************************************************************)
(* The calls of the selection specification (_select, _select_two) and of  *)
(* the order-statistics specification (the kernels built on them).         *)
(***************************************************************************)
NoRet == [raised |-> "none"]

\* _select on every array, with every low <= k <= high inside it, for both
\* comparators.
InitSelect ==
    /\ op = "_select"
    /\ \E A \in Arrays(Vals, MaxLen), w \in BOOLEAN :
         \E high \in 0..(len(A) - 1) : \E k \in 0..high : \E low \in 0..k :
            args = [A |-> A, k |-> k, low |-> low, high |-> high, w |-> w]

\* _select_two with every low <= k and k + 1 <= high inside the array.
InitSelectTwo ==
    /\ op = "_select_two"
    /\ \E A \in Arrays(Vals, MaxLen) :
         \E high \in 0..(len(A) - 1) : \E k \in 0..(high - 1) : \E low \in 0..k :
            args = [A |-> A, k |-> k, low |-> low, high |-> high, w |-> FALSE]

\* The kernels that take one array, of any length from 0.
ArrayOps == {"min", "max", "argmin", "median", "nanmedian"}

InitArrayOp ==
    /\ op \in ArrayOps
    /\ \E a \in Arrays(Vals, MaxLen) : args = [a |-> a]

\* kth: one index, in or out of bounds, or two in any order.
KthArgs ==
    [1..1 -> (0 - MaxLen)..MaxLen] \cup [1..2 -> {0 - 1, 0, 1, MaxLen - 1}]

InitPartition ==
    /\ op = "partition"
    /\ \E a \in Arrays(Vals, MaxLen), kth \in KthArgs : args = [a |-> a, kth |-> kth]

\* Percentiles: shorter arrays that may hold infinities; one or two ranks,
\* valid or not.
PctOps == {"percentile", "nanpercentile", "quantile", "nanquantile"}
PctVals == {0, 1, NaN, PosInf, NegInf}
RankVals == {0 - 1, 0, 40, 50, 100, 101, NaN}
RankArgs == [0..0 -> RankVals] \cup [0..1 -> RankVals]

InitPercentile ==
    /\ op \in PctOps
    /\ \E a \in Arrays(PctVals, MaxLen - 1), q \in RankArgs : args = [a |-> a, q |-> q]

CallSelect ==
    /\ pc = "call" /\ op = "_select"
    /\ ret' = [raised |-> "none"] @@
              _select(args.w, args.A, args.k, args.low, args.high)
    /\ pc' = "done"
    /\ UNCHANGED <<op, args>>

CallSelectTwo ==
    /\ pc = "call" /\ op = "_select_two"
    /\ ret' = _select_two(args.A, args.k, args.low, args.high)
    /\ pc' = "done"
    /\ UNCHANGED <<op, args>>

CallMin ==
    /\ pc = "call" /\ op = "min"
    /\ ret' = array_min_impl(args.a)
    /\ pc' = "done"
    /\ UNCHANGED <<op, args>>

CallMax ==
    /\ pc = "call" /\ op = "max"
    /\ ret' = array_max_impl(args.a)
    /\ pc' = "done"
    /\ UNCHANGED <<op, args>>

CallArgmin ==
    /\ pc = "call" /\ op = "argmin"
    /\ ret' = array_argmin_impl(args.a)
    /\ pc' = "done"
    /\ UNCHANGED <<op, args>>

CallMedian ==
    /\ pc = "call" /\ op = "median"
    /\ ret' = median_impl(args.a)
    /\ pc' = "done"
    /\ args' = [args EXCEPT !.a = CallerAfter("flatten", args.a,
                                            MedianTemp(args.a, len(args.a)))]
    /\ UNCHANGED op

CallNanmedian ==
    /\ pc = "call" /\ op = "nanmedian"
    /\ ret' = nanmedian_impl(args.a)
    /\ pc' = "done"
    /\ args' = [args EXCEPT !.a = CallerAfter("empty", args.a,
                                            NanmedianTemp(NonNaN(args.a, 0, <<>>)))]
    /\ UNCHANGED op

CallPartition ==
    /\ pc = "call" /\ op = "partition"
    /\ ret' = np_partition_impl(args.a, args.kth)
    /\ pc' = "done"
    /\ args' = [args EXCEPT !.a = CallerAfter("copy", args.a,
                                            PartitionTemp(args.a, args.kth))]
    /\ UNCHANGED op

CallPercentile ==
    /\ pc = "call" /\ op = "percentile"
    /\ ret' = np_percentile(args.a, args.q)
    /\ pc' = "done"
    /\ args' = [args EXCEPT !.a = CallerAfter("flatten", args.a,
                                            PercentileTemp(args.a, args.q, 100, 1, 1, FALSE))]
    /\ UNCHANGED op

CallNanpercentile ==
    /\ pc = "call" /\ op = "nanpercentile"
    /\ ret' = np_nanpercentile(args.a, args.q)
    /\ pc' = "done"
    /\ args' = [args EXCEPT !.a = CallerAfter("flatten", args.a,
                                            PercentileTemp(args.a, args.q, 100, 1, 1, TRUE))]
    /\ UNCHANGED op

CallQuantile ==
    /\ pc = "call" /\ op = "quantile"
    /\ ret' = np_quantile(args.a, args.q)
    /\ pc' = "done"
    /\ args' = [args EXCEPT !.a = CallerAfter("flatten", args.a,
                                            PercentileTemp(args.a, args.q, 100, 100, 100, FALSE))]
    /\ UNCHANGED op

CallNanquantile ==
    /\ pc = "call" /\ op = "nanquantile"
    /\ ret' = np_nanquantile(args.a, args.q)
    /\ pc' = "done"
    /\ args' = [args EXCEPT !.a = CallerAfter("flatten", args.a,
                                            PercentileTemp(args.a, args.q, 100, 100, 100, TRUE))]
    /\ UNCHANGED op

InitSelection ==
    /\ pc = "call"
    /\ ret = NoRet
    /\ \/ InitSelect
       \/ InitSelectTwo

NextSelection ==
    \/ CallSelect
    \/ CallSelectTwo

SpecSelect == InitSelection /\ [][NextSelection]_vars

InitOrder ==
    /\ pc = "call"
    /\ ret = NoRet
    /\ \/ InitArrayOp
       \/ InitPartition
       \/ InitPercentile

NextOrder ==
    \/ CallMin
    \/ CallMax
    \/ CallArgmin
    \/ CallMedian
    \/ CallNanmedian
    \/ CallPartition
    \/ CallPercentile
    \/ CallNanpercentile
    \/ CallQuantile
    \/ CallNanquantile

SpecOrder == InitOrder /\ [][NextOrder]_vars

(***************************************************************************)
(* searchsorted                                                            *)
(***************************************************************************)
\* _le = lambda x, y: x <= y, false as soon as one side is NaN
le(x, y) == IF isnan(x) \/ isnan(y) THEN FALSE ELSE x <= y

\* A searchsorted whose two sides both compare with <=.
SideFuncAlwaysLe(side, x, y) == le(x, y)

\* func of _searchsorted(func): _lt for side 'left', _le for side 'right'
side_func(side, x, y) == IF side = "left" THEN less_than(x, y) ELSE le(x, y)

RECURSIVE LastNonNaN(_, _)
\* for i in range(n, 0, -1): if not np.isnan(a[i - 1]): return i
LastNonNaN(a, i) ==
    IF i <= 0 THEN 0
    ELSE IF ~isnan(a[i - 1]) THEN i
    ELSE LastNonNaN(a, i - 1)

RECURSIVE Bisect(_, _, _, _, _)
\* while hi > lo: mid = (lo + hi) >> 1; go up or down
Bisect(side, a, v, lo, hi) ==
    IF ~(hi > lo) THEN lo
    ELSE IF side_func(side, a[(lo + hi) \div 2], v)
         THEN Bisect(side, a, v, ((lo + hi) \div 2) + 1, hi)
         ELSE Bisect(side, a, v, lo, (lo + hi) \div 2)

searchsorted_inner(side, a, v) ==
    IF isnan(v) THEN LastNonNaN(a, len(a))
    ELSE Bisect(side, a, v, 0, len(a))

\* searchsorted with a scalar v; any other side is rejected when resolved.
searchsorted_impl(a, v, side) ==
    IF side \notin {"left", "right"} THEN [raised |-> "ValueError", val |-> 0]
    ELSE [raised |-> "none", val |-> searchsorted_inner(side, a, v)]

InitSearch ==
    /\ pc = "call"
    /\ ret = NoRet
    /\ op = "searchsorted"
    /\ \E a \in Arrays(Vals, MaxLen), v \in Vals, side \in {"left", "right", "middle"} :
          args = [a |-> a, v |-> v, side |-> side]

CallSearchsorted ==
    /\ pc = "call" /\ op = "searchsorted"
    /\ ret' = searchsorted_impl(args.a, args.v, args.side)
    /\ pc' = "done"
    /\ UNCHANGED <<op, args>>

NextSearch ==
    \/ CallSearchsorted

SpecSearch == InitSearch /\ [][NextSearch]_vars

(***************************************************************************)
(* histogram with an integer number of bins and an explicit range          *)
(***************************************************************************)
MaxBins == 3

\* hist[int(b)] += 1
Bump(hist, b) == [hist EXCEPT ![b] = hist[b] + 1]

\* b = math.floor((v - bin_min) * bin_ratio) with bin_ratio =
\* bins / (bin_max - bin_min), computed exactly; NaN has no bin.
BinOf(v, bins, bin_min, bin_max) == ((v - bin_min) * bins) \div (bin_max - bin_min)

\* The body of the loop over the items of a.
HistOne(hist, v, bins, bin_min, bin_max) ==
    IF isnan(v) THEN hist
    ELSE IF 0 <= BinOf(v, bins, bin_min, bin_max) /\ BinOf(v, bins, bin_min, bin_max) < bins
         THEN Bump(hist, BinOf(v, bins, bin_min, bin_max))
    ELSE IF v = bin_max THEN Bump(hist, bins - 1)
    ELSE hist

RECURSIVE HistLoop(_, _, _, _, _, _)
\* for view in np.nditer(a)
HistLoop(hist, a, i, bins, bin_min, bin_max) ==
    IF i >= len(a) THEN hist
    ELSE HistLoop(HistOne(hist, a[i], bins, bin_min, bin_max), a, i + 1,
                  bins, bin_min, bin_max)

\* np.linspace(bin_min, bin_max, bins + 1)
linspace(bin_min, bin_max, bins) ==
    [j \in 0..bins |-> <<bin_min * bins + j * (bin_max - bin_min), bins>>]

histogram_impl(a, bins, bin_min, bin_max) ==
    IF bins <= 0 THEN [raised |-> "ValueError", hist |-> <<>>, bins_array |-> <<>>]
    ELSE IF ~le(bin_min, bin_max)
         THEN [raised |-> "ValueError", hist |-> <<>>, bins_array |-> <<>>]
    ELSE [raised |-> "none",
          hist |-> IF less_than(bin_min, bin_max)
                   THEN HistLoop([j \in 0..(bins - 1) |-> 0], a, 0, bins, bin_min, bin_max)
                   ELSE [j \in 0..(bins - 1) |-> 0],
          bins_array |-> linspace(bin_min, bin_max, bins)]

InitHistRange ==
    /\ pc = "call"
    /\ ret = NoRet
    /\ op = "histogram"
    /\ \E a \in Arrays(Vals, MaxLen), bins \in 0..MaxBins, lo \in Vals, hi \in Vals :
          args = [a |-> a, bins |-> bins, range |-> <<lo, hi>>]

CallHistogram ==
    /\ pc = "call" /\ op = "histogram"
    /\ ret' = histogram_impl(args.a, args.bins, args.range[1], args.range[2])
    /\ pc' = "done"
    /\ UNCHANGED <<op, args>>

\* histogram with a custom bins array (a bisection search)
MaxEdges == 3
MaxItems == 2

\* An edge check that asks for bins[i] < bins[i + 1].
EdgesOrderedStrict(x, y) == less_than(x, y)

\* bins[i] <= bins[i + 1] ("this also catches NaNs")
EdgesOrdered(x, y) == le(x, y)

RECURSIVE EdgesRaise(_, _, _)
\* for i in _range(nbins): if not bins[i] <= bins[i + 1]: raise ValueError
EdgesRaise(bins, i, nbins) ==
    IF i >= nbins THEN FALSE
    ELSE IF ~EdgesOrdered(bins[i], bins[i + 1]) THEN TRUE
    ELSE EdgesRaise(bins, i + 1, nbins)

RECURSIVE BisectEdges(_, _, _, _)
\* while lo < hi: mid = (lo + hi + 1) >> 1; bisect in bins[:-1]
BisectEdges(v, bins, lo, hi) ==
    IF ~(lo < hi) THEN lo
    ELSE IF less_than(v, bins[(lo + hi + 1) \div 2])
         THEN BisectEdges(v, bins, lo, ((lo + hi + 1) \div 2) - 1)
         ELSE BisectEdges(v, bins, (lo + hi + 1) \div 2, hi)

\* The body of the loop over the items of a.
EdgesOne(hist, v, bins, nbins) ==
    IF ~(le(bins[0], v) /\ le(v, bins[nbins])) THEN hist
    ELSE Bump(hist, BisectEdges(v, bins, 0, nbins - 1))

RECURSIVE EdgesLoop(_, _, _, _, _)
\* for view in np.nditer(a)
EdgesLoop(hist, a, i, bins, nbins) ==
    IF i >= len(a) THEN hist
    ELSE EdgesLoop(EdgesOne(hist, a[i], bins, nbins), a, i + 1, bins, nbins)

histogram_impl_edges(a, bins, nbins) ==
    IF EdgesRaise(bins, 0, nbins)
    THEN [raised |-> "ValueError", hist |-> <<>>, bins_array |-> <<>>]
    ELSE [raised |-> "none",
          hist |-> IF nbins > 0
                   THEN EdgesLoop([j \in 0..(nbins - 1) |-> 0], a, 0, bins, nbins)
                   ELSE [j \in 0..(nbins - 1) |-> 0],
          bins_array |-> [j \in DOMAIN bins |-> ToRat(bins[j])]]

InitHistEdges ==
    /\ pc = "call"
    /\ ret = NoRet
    /\ op = "histogram_edges"
    /\ \E n \in 1..MaxEdges : \E bins \in [0..(n - 1) -> Vals] :
         \E a \in Arrays(Vals, MaxItems) :
            args = [a |-> a, bins |-> bins]

CallHistogramEdges ==
    /\ pc = "call" /\ op = "histogram_edges"
    /\ ret' = histogram_impl_edges(args.a, args.bins, len(args.bins) - 1)
    /\ pc' = "done"
    /\ UNCHANGED <<op, args>>

NextHist ==
    \/ CallHistogram
    \/ CallHistogramEdges

InitHist == InitHistRange \/ InitHistEdges

SpecHist == InitHist /\ [][NextHist]_vars

(***************************************************************************)
(* binary_search_with_guess and interp                                     *)
(***************************************************************************)
MaxXp == 13

LIKELY_IN_CACHE_SIZE == 8

\* The result of a search: the index returned and the indices of arr read.
Found(j, reads) == [j |-> j, reads |-> reads]

\* imid = imin + ((imax - imin) >> 1)
Mid(imin, imax) == imin + ((imax - imin) \div 2)

RECURSIVE BisectGuess(_, _, _, _, _)
\* finally, find index by bisection
BisectGuess(key, arr, imin, imax, reads) ==
    IF ~(imin < imax) THEN Found(imin - 1, reads)
    ELSE IF key >= arr[Mid(imin, imax)]
         THEN BisectGuess(key, arr, Mid(imin, imax) + 1, imax, reads \cup {Mid(imin, imax)})
         ELSE BisectGuess(key, arr, imin, Mid(imin, imax), reads \cup {Mid(imin, imax)})

RECURSIVE LinearSearch(_, _, _, _, _)
\* while i < length and key >= arr[i]: i += 1
LinearSearch(key, arr, length, i, reads) ==
    IF ~(i < length) THEN Found(i - 1, reads)
    ELSE IF key >= arr[i] THEN LinearSearch(key, arr, length, i + 1, reads \cup {i})
    ELSE Found(i - 1, reads \cup {i})

\* if guess > length - 3: guess = length - 3
ClampHigh(guess, length) == IF guess > length - 3 THEN length - 3 ELSE guess

\* if guess < 1: guess = 1
ClampLow(guess) == IF guess < 1 THEN 1 ELSE guess

\* A search below the guess that always trusts the cache window.
SearchBelowAlwaysWindow(key, arr, guess, reads) ==
    IF guess > LIKELY_IN_CACHE_SIZE
    THEN BisectGuess(key, arr, guess - LIKELY_IN_CACHE_SIZE, guess - 1, reads)
    ELSE BisectGuess(key, arr, 0, guess - 1, reads)

\* key < arr[guess - 1]: imax = guess - 1, imin raised to the cache window
SearchBelow(key, arr, guess, reads) ==
    IF guess > LIKELY_IN_CACHE_SIZE
    THEN IF key >= arr[guess - LIKELY_IN_CACHE_SIZE]
         THEN BisectGuess(key, arr, guess - LIKELY_IN_CACHE_SIZE, guess - 1,
                          reads \cup {guess - LIKELY_IN_CACHE_SIZE})
         ELSE BisectGuess(key, arr, 0, guess - 1, reads \cup {guess - LIKELY_IN_CACHE_SIZE})
    ELSE BisectGuess(key, arr, 0, guess - 1, reads)

\* A search above the guess that always trusts the cache window.
SearchAboveAlwaysWindow(key, arr, length, guess, reads) ==
    IF guess < length - LIKELY_IN_CACHE_SIZE - 1
    THEN BisectGuess(key, arr, guess + 2, guess + LIKELY_IN_CACHE_SIZE, reads)
    ELSE BisectGuess(key, arr, guess + 2, length, reads)

\* key >= arr[guess + 2]: imin = guess + 2, imax lowered to the cache window
SearchAbove(key, arr, length, guess, reads) ==
    IF guess < length - LIKELY_IN_CACHE_SIZE - 1
    THEN IF key < arr[guess + LIKELY_IN_CACHE_SIZE]
         THEN BisectGuess(key, arr, guess + 2, guess + LIKELY_IN_CACHE_SIZE,
                          reads \cup {guess + LIKELY_IN_CACHE_SIZE})
         ELSE BisectGuess(key, arr, guess + 2, length, reads \cup {guess + LIKELY_IN_CACHE_SIZE})
    ELSE BisectGuess(key, arr, guess + 2, length, reads)

\* check most likely values: guess - 1, guess, guess + 1
GuessSearch(key, arr, length, guess, reads) ==
    IF key < arr[guess]
    THEN IF key < arr[guess - 1]
         THEN SearchBelow(key, arr, guess, reads \cup {guess, guess - 1})
         ELSE Found(guess - 1, reads \cup {guess, guess - 1})
    ELSE IF key < arr[guess + 1] THEN Found(guess, reads \cup {guess, guess + 1})
    ELSE IF key < arr[guess + 2] THEN Found(guess + 1, reads \cup {guess, guess + 1, guess + 2})
    ELSE SearchAbove(key, arr, length, guess, reads \cup {guess, guess + 1, guess + 2})

binary_search_with_guess(key, arr, length, guess) ==
    IF key > arr[length - 1] THEN Found(length, {length - 1})
    ELSE IF key < arr[0] THEN Found(0 - 1, {length - 1, 0})
    ELSE IF length <= 4 THEN LinearSearch(key, arr, length, 1, {length - 1, 0})
    ELSE GuessSearch(key, arr, length, ClampLow(ClampHigh(guess, length)), {length - 1, 0})

\* 0 - r
RNeg(r) == <<0 - r[1], r[2]>>

\* r / d for an integer d >= 0, as array division does it (no error for 0)
RDivInt(r, d) ==
    IF RIsNaN(r) THEN RNaN
    ELSE IF ~RIsFinite(r) THEN r
    ELSE IF d = 0 THEN (IF r[1] = 0 THEN RNaN ELSE IF r[1] > 0 THEN RPosInf ELSE RNegInf)
    ELSE <<r[1], r[2] * d>>

\* slope = (dy[j + 1] - dy[j]) / (dx[j + 1] - dx[j]), the same number whether
\* taken from the precomputed slopes or computed on demand; between sorted
\* samples the bracket found has dx[j] < dx[j + 1].
Slope(dx, dy, j) == RDivInt(RAdd(ToRat(dy[j + 1]), RNeg(ToRat(dy[j]))), dx[j + 1] - dx[j])

\* slope * (x_val - dx[j]) + dy[j]
Interpolate(x_val, dx, dy, j) == RAdd(RScale(Slope(dx, dy, j), x_val - dx[j], 1), ToRat(dy[j]))

\* What one query stores in dres: the value, and whether the slope formula
\* was evaluated for it.
Stored(val, evaluated) == [val |-> val, evaluated |-> evaluated]

\* The branches after the search of np_interp_impl_inner (before 1.16),
\* whatever the version.
InterpOnePre116(np116, x_val, dx, dy, j) ==
    IF j = 0 - 1 THEN Stored(ToRat(dy[0]), FALSE)
    ELSE IF j = len(dx) THEN Stored(ToRat(dy[len(dx) - 1]), FALSE)
    ELSE IF j = len(dx) - 1 THEN Stored(ToRat(dy[j]), FALSE)
    ELSE Stored(Interpolate(x_val, dx, dy, j), TRUE)

\* The branches after the search; np116 selects np_interp_impl_inner_116,
\* which adds "elif dx[j] == x_val".
InterpOne(np116, x_val, dx, dy, j) ==
    IF j = 0 - 1 THEN Stored(ToRat(dy[0]), FALSE)
    ELSE IF j = len(dx) THEN Stored(ToRat(dy[len(dx) - 1]), FALSE)
    ELSE IF j = len(dx) - 1 THEN Stored(ToRat(dy[j]), FALSE)
    ELSE IF np116 /\ dx[j] = x_val THEN Stored(ToRat(dy[j]), FALSE)
    ELSE Stored(Interpolate(x_val, dx, dy, j), TRUE)

\* dres.flat[i] = r
Store(dres, i, r) == [k \in 0..i |-> IF k = i THEN r ELSE dres[k]]

\* A loop that sends every query to the search.
SkipsSearchNever(x_val) == FALSE

\* if np.isnan(x_val): dres.flat[i] = x_val; continue
SkipsSearch(x_val) == isnan(x_val)

\* The queries for which the loop calls binary_search_with_guess.
SearchedQueries(dz) == {i \in DOMAIN dz : ~SkipsSearch(dz[i])}

RECURSIVE InterpLoop(_, _, _, _, _, _, _)
RECURSIVE InterpStep(_, _, _, _, _, _, _)
\* the query at i once the search has returned j
InterpStep(np116, dz, dx, dy, i, j, dres) ==
    InterpLoop(np116, dz, dx, dy, i + 1, j, Store(dres, i, InterpOne(np116, dz[i], dx, dy, j)))

\* for i in range(lenx), with the hint j carried from query to query
InterpLoop(np116, dz, dx, dy, i, j, dres) ==
    IF i >= len(dz) THEN dres
    ELSE IF SkipsSearch(dz[i])
         THEN InterpLoop(np116, dz, dx, dy, i + 1, j, Store(dres, i, Stored(RNaN, FALSE)))
    ELSE InterpStep(np116, dz, dx, dy, i,
                    binary_search_with_guess(dz[i], dx, len(dx), j).j, dres)

\* np_interp_impl_inner_116 when np116, else np_interp_impl_inner
np_interp_impl(np116, dz, dx, dy) ==
    IF len(dx) = 0 THEN [raised |-> "ValueError", dres |-> <<>>, searched |-> {}]
    ELSE IF len(dx) # len(dy) THEN [raised |-> "ValueError", dres |-> <<>>, searched |-> {}]
    ELSE IF len(dx) = 1
         THEN [raised |-> "none", dres |-> [k \in DOMAIN dz |-> Stored(ToRat(dy[0]), FALSE)],
               searched |-> {}]
    ELSE [raised |-> "none", dres |-> InterpLoop(np116, dz, dx, dy, 0, 0, <<>>),
          searched |-> SearchedQueries(dz)]

\* The non-decreasing arrays of length n over Nums: item i is the number of
\* values whose first position is at or before i.
SortedArraysOfLen(n) ==
    {[i \in 0..(n - 1) |-> Cardinality({c \in 1..MaxVal : cut[c] <= i})] :
        cut \in [1..MaxVal -> 0..n]}

FpVals == {0, MaxVal, PosInf}

InitSearchGuess ==
    /\ pc = "call"
    /\ ret = NoRet
    /\ op = "binary_search_with_guess"
    /\ \E n \in 1..MaxXp : \E arr \in SortedArraysOfLen(n) :
         \E key \in (0 - 1)..MaxVal, guess \in (0 - 1)..MaxXp :
            args = [key |-> key, arr |-> arr, length |-> n, guess |-> guess]

InitInterp ==
    /\ pc = "call"
    /\ ret = NoRet
    /\ op = "interp"
    /\ \E n \in 0..MaxLen : \E xp \in SortedArraysOfLen(n) :
         \E m \in {n, n + 1} \cap (0..MaxLen) : \E fp \in [0..(m - 1) -> FpVals] :
           \E lenx \in 1..2 : \E x \in [0..(lenx - 1) -> Vals \cup {0 - 1}] :
             \E np116 \in BOOLEAN :
                args = [x |-> x, xp |-> xp, fp |-> fp, np116 |-> np116]

CallBinarySearchWithGuess ==
    /\ pc = "call" /\ op = "binary_search_with_guess"
    /\ ret' = binary_search_with_guess(args.key, args.arr, args.length, args.guess)
    /\ pc' = "done"
    /\ UNCHANGED <<op, args>>

CallInterp ==
    /\ pc = "call" /\ op = "interp"
    /\ ret' = np_interp_impl(args.np116, args.x, args.xp, args.fp)
    /\ pc' = "done"
    /\ UNCHANGED <<op, args>>

InitInterpolation == InitSearchGuess \/ InitInterp

NextInterp ==
    \/ CallBinarySearchWithGuess
    \/ CallInterp

SpecInterp == InitInterpolation /\ [][NextInterp]_vars

(***************************************************************************)
(* interp on longer sample arrays, where the search uses the guess it is   *)
(* given: two samples, the shortest length past the linear search, and the *)
(* lengths at which both cache windows (below and above the guess) come    *)
(* into play.  fp is the ramp 0, 1, 2, ... so that distinct brackets give  *)
(* distinct values.                                                        *)
(***************************************************************************)
HintXpLens == {2, 5, MaxXp - 1, MaxXp}

InitInterpLong ==
    /\ pc = "call"
    /\ ret = NoRet
    /\ op = "interp"
    /\ \E n \in HintXpLens : \E xp \in SortedArraysOfLen(n) :
         \E lenx \in 1..2 : \E x \in [0..(lenx - 1) -> Vals \cup {0 - 1}] :
            args = [x |-> x, xp |-> xp, fp |-> [i \in 0..(n - 1) |-> i], np116 |-> TRUE]

InitHint == InitSearchGuess \/ InitInterpLong

SpecHint == InitHint /\ [][NextInterp]_vars

(***************************************************************************)
(* sum with an axis: resolution of the kernel, then its run                *)
(***************************************************************************)
MaxRank == 5

\* The runtime axis branches are unrolled for axis 0..3.
MaxUnrolledAxis == 3

\* if const_axis_val < 0: const_axis_val = ty_array.ndim + const_axis_val
\* A resolution that takes the literal axis as it is written.
FixNegativeAxisNever(axis, ndim) == axis

FixNegativeAxis(axis, ndim) == IF axis < 0 THEN ndim + axis ELSE axis

\* What array_sum_axis leaves: an error of the resolution, or a kernel with
\* the axis it was specialised for.
Resolved(raised, is_axis_const, const_axis_val) ==
    [stage |-> "resolution", raised |-> raised, kernel |-> raised = "none",
     is_axis_const |-> is_axis_const, const_axis_val |-> const_axis_val]

array_sum_axis(ndim, literal, axis) ==
    IF literal
    THEN IF FixNegativeAxis(axis, ndim) < 0 \/ FixNegativeAxis(axis, ndim) > ndim
         THEN Resolved("ValueError", TRUE, FixNegativeAxis(axis, ndim))
         ELSE Resolved("none", TRUE, FixNegativeAxis(axis, ndim))
    ELSE Resolved("none", FALSE, 0)

\* ashape.pop(axis): the shape of the result
PopAxis(shape, axis) ==
    [d \in 0..(len(shape) - 2) |-> IF d < axis THEN shape[d] ELSE shape[d + 1]]

Ran(raised, shape) == [stage |-> "run", raised |-> raised, shape |-> shape]

\* The kernel; axis is the constant of the resolution when there is one.
array_sum_impl_axis(shape, is_axis_const, axis) ==
    IF ~is_axis_const /\ (axis < 0 \/ axis > MaxUnrolledAxis) THEN Ran("ValueError", <<>>)
    ELSE IF axis >= len(shape) THEN Ran("ValueError", <<>>)
    ELSE Ran("none", PopAxis(shape, axis))

InitSumAxis ==
    /\ pc = "call"
    /\ ret = NoRet
    /\ op = "sum_axis"
    /\ \E ndim \in 1..MaxRank : \E shape \in [0..(ndim - 1) -> 1..2] :
         \E literal \in BOOLEAN, axis \in (0 - MaxRank - 1)..(MaxRank + 1) :
            args = [shape |-> shape, literal |-> literal, axis |-> axis]

ResolveSumAxis ==
    /\ pc = "call" /\ op = "sum_axis"
    /\ ret' = array_sum_axis(len(args.shape), args.literal, args.axis)
    /\ pc' = "resolved"
    /\ UNCHANGED <<op, args>>

RunSumAxis ==
    /\ pc = "resolved" /\ op = "sum_axis" /\ ret.kernel
    /\ ret' = array_sum_impl_axis(args.shape, ret.is_axis_const,
                                  IF ret.is_axis_const THEN ret.const_axis_val ELSE args.axis)
    /\ pc' = "done"
    /\ UNCHANGED <<op, args>>

NextSumAxis ==
    \/ ResolveSumAxis
    \/ RunSumAxis

SpecSumAxis == InitSumAxis /\ [][NextSumAxis]_vars

(***************************************************************************)
(* Resolution of np.where and np.fill_diagonal from argument types         *)
(***************************************************************************)
MaxNdim == 3

\* The kinds of type descriptor an argument can have.
Kinds == {"Array", "Integer", "Float", "Complex", "Boolean", "Sequence", "Tuple", "None", "other"}

\* isinstance(t, (types.Number, types.Boolean))
IsNumberOrBoolean(t) == t \in {"Integer", "Float", "Complex", "Boolean"}

\* What a resolution leaves: the implementation selected, or the exception
\* that ended it ("no match" when the overload returns None).
Selected(impl) == [outcome |-> "selected", impl |-> impl, exc |-> "none"]
Failed(exc) == [outcome |-> "failed", impl |-> "none", exc |-> exc]

\* For an array x: impl is bound only when y is an array, a number or a
\* boolean; "return impl(...)" with impl unbound is an UnboundLocalError.
WhereArrayX(y) ==
    IF y = "Array" THEN Selected("array_where")
    ELSE IF IsNumberOrBoolean(y) THEN Selected("array_array_scalar_where")
    ELSE Failed("UnboundLocalError")

WhereScalarX(y) ==
    IF y = "Array" THEN Selected("array_scalar_array_where")
    ELSE IF IsNumberOrBoolean(y) THEN Selected("array_scalar_scalar_where")
    ELSE Failed("UnboundLocalError")

any_where(cond, x, y) ==
    IF cond = "Array"
    THEN IF x = "Array" THEN WhereArrayX(y)
         ELSE IF IsNumberOrBoolean(x) THEN WhereScalarX(y)
         ELSE Failed("UnboundLocalError")
    ELSE Selected("scalar_where_impl")

\* checker = _check_val_int / _check_val_float / _check_nop by a.dtype
CheckerOf(dtype) ==
    IF dtype = "Integer" THEN "_check_val_int"
    ELSE IF dtype = "Float" THEN "_check_val_float"
    ELSE "_check_nop"

SelectedWith(impl, checker) == [outcome |-> "selected", impl |-> impl, exc |-> "none", checker |-> checker]

\* a is the kind of the first argument; only an Array has ndim and dtype.
np_fill_diagonal(a, ndim, dtype, val) ==
    IF a # "Array" THEN Failed("AttributeError")
    ELSE IF ndim > 1
         THEN IF val \in {"Float", "Integer", "Boolean"}
              THEN SelectedWith("scalar_impl", CheckerOf(dtype))
              ELSE IF val \in {"Tuple", "Sequence", "Array"}
                   THEN SelectedWith("non_scalar_impl", CheckerOf(dtype))
              ELSE Failed("no match")
    ELSE Failed("TypingError")

InitResolveWhere ==
    /\ pc = "call"
    /\ ret = NoRet
    /\ op = "where"
    /\ \E cond \in Kinds, x \in Kinds, y \in Kinds :
          args = [cond |-> cond, x |-> x, y |-> y]

InitResolveFillDiagonal ==
    /\ pc = "call"
    /\ ret = NoRet
    /\ op = "fill_diagonal"
    /\ \E a \in Kinds, ndim \in 0..MaxNdim, dtype \in {"Integer", "Float", "Complex", "Boolean"} :
         \E val \in Kinds :
            args = [a |-> a, ndim |-> ndim, dtype |-> dtype, val |-> val]

ResolveWhere ==
    /\ pc = "call" /\ op = "where"
    /\ ret' = any_where(args.cond, args.x, args.y)
    /\ pc' = "done"
    /\ UNCHANGED <<op, args>>

ResolveFillDiagonal ==
    /\ pc = "call" /\ op = "fill_diagonal"
    /\ ret' = np_fill_diagonal(args.a, args.ndim, args.dtype, args.val)
    /\ pc' = "done"
    /\ UNCHANGED <<op, args>>

InitResolve == InitResolveWhere \/ InitResolveFillDiagonal

NextResolve ==
    \/ ResolveWhere
    \/ ResolveFillDiagonal

SpecResolve == InitResolve /\ [][NextResolve]_vars

(***************************************************************************)
(* cov of one 1-D variable: the matrix path and the scalar path            *)
(* ddof is [kind, finite, v2] with v2 twice its value, so that 0.5 is a    *)
(* float ddof that is not integral.                                        *)
(***************************************************************************)
RECURSIVE SumOf(_, _)
\* np.sum(a[i, :]) of the items below index n
SumOf(x, n) == IF n = 0 THEN 0 ELSE x[n - 1] + SumOf(x, n - 1)

RECURSIVE SumSqOf(_, _)
SumSqOf(x, n) == IF n = 0 THEN 0 ELSE x[n - 1] * x[n - 1] + SumSqOf(x, n - 1)

\* X -= row_wise_average(X): item i becomes x[i] - sum / n
DeMean(x) == [i \in DOMAIN x |-> <<len(x) * x[i] - SumOf(x, len(x)), len(x)>>]

\* if ddof is None: ddof = 0 if bias else 1
DdofOf(bias, ddof) ==
    IF ddof.kind = "None"
    THEN [kind |-> "Integer", finite |-> TRUE, v2 |-> IF bias THEN 0 ELSE 2]
    ELSE ddof

\* c = np.dot(X, np.conj(X.T)) * np.true_divide(1, fact) for the one row x,
\* with fact = max(X.shape[1] - ddof, 0.0) = fact2 / 2 and
\* np.dot = (n * sum(x^2) - sum(x)^2) / n = dot_n / n
CovScaled(dot_n, n, fact2) ==
    IF fact2 <= 0 THEN (IF dot_n = 0 THEN RNaN ELSE RPosInf)
    ELSE <<2 * dot_n, n * fact2>>

\* np_cov_impl_inner(X, bias, ddof)[0, 0], ddof already resolved
CovInnerOf(x, ddof) ==
    IF ~ddof.finite THEN RNaN
    ELSE CovScaled(len(x) * SumSqOf(x, len(x)) - SumOf(x, len(x)) * SumOf(x, len(x)),
                   len(x), 2 * len(x) - ddof.v2)

np_cov_impl_inner(x, bias, ddof) == CovInnerOf(x, DdofOf(bias, ddof))

\* _handle_ddof(ddof): the exception raised, or "none"
_handle_ddof(ddof) ==
    IF ~ddof.finite THEN "ValueError"
    ELSE IF ddof.v2 % 2 # 0 THEN "ValueError"
    ELSE "none"

\* _DDOF_HANDLER: _handle_ddof for a Float ddof, else the no-op
DdofHandlerIsCheck(ddof) == ddof.kind = "Float"

CovResult(raised, val) == [raised |-> raised, val |-> val]

\* After _prepare_cov_input ended with `raised`: NaN for an empty X.
CovAfterPrepare(raised, x, bias, ddof) ==
    IF raised # "none" THEN CovResult(raised, RNaN)
    ELSE IF len(x) = 0 THEN CovResult("none", RNaN)
    ELSE CovResult("none", np_cov_impl_inner(x, bias, ddof))

\* np_cov_impl(m, ...)[0, 0]: _prepare_cov_input(m, y, rowvar, dtype, ddof, ...)
\* hands ddof to _DDOF_HANDLER.
np_cov_impl(m, bias, ddof) ==
    CovAfterPrepare(IF DdofHandlerIsCheck(ddof) THEN _handle_ddof(ddof) ELSE "none",
                    m, bias, ddof)

\* np_cov_impl_single_variable calls _prepare_cov_input(m, y, rowvar, ddof,
\* dtype, ...): the positions of dtype and ddof are exchanged, so
\* _DDOF_HANDLER receives the dtype object and ddof is never checked.
\* on_dtype is what _handle_ddof does on the dtype object: it fails to type
\* ("TypingError") or passes ("none").
ScalarPrepare(ddof, on_dtype) ==
    IF DdofHandlerIsCheck(ddof) THEN on_dtype ELSE "none"

np_cov_impl_single_variable(m, bias, ddof, on_dtype) ==
    CovAfterPrepare(ScalarPrepare(ddof, on_dtype), m, bias, ddof)

\* X = _prepare_cov_input(...).astype(dtype) after the de-meaning
CovTemp(m) == IF len(m) = 0 THEN m ELSE DeMean(m)

DdofArgs ==
    {[kind |-> "None", finite |-> TRUE, v2 |-> 0]}
    \cup {[kind |-> "Integer", finite |-> TRUE, v2 |-> 2 * d] : d \in (0 - 1)..MaxLen}
    \cup {[kind |-> "Float", finite |-> TRUE, v2 |-> v] : v \in {0, 1, 2, 3}}
    \cup {[kind |-> "Float", finite |-> FALSE, v2 |-> 0]}

InitCov ==
    /\ pc = "call"
    /\ ret = NoRet
    /\ op = "cov"
    /\ \E m \in Arrays(Nums, MaxLen), bias \in BOOLEAN, ddof \in DdofArgs :
         \E on_dtype \in {"TypingError", "none"} :
            args = [a |-> m, bias |-> bias, ddof |-> ddof, on_dtype |-> on_dtype]

\* Both paths on the same data.
CallCov ==
    /\ pc = "call" /\ op = "cov"
    /\ ret' = [raised |-> "none",
               scalar |-> np_cov_impl_single_variable(args.a, args.bias, args.ddof,
                                                      args.on_dtype),
               matrix |-> np_cov_impl(args.a, args.bias, args.ddof)]
    /\ pc' = "done"
    /\ args' = [args EXCEPT !.a = CallerAfter("astype", args.a,
                                            CovTemp(args.a))]
    /\ UNCHANGED op

NextCov ==
    \/ CallCov

SpecCov == InitCov /\ [][NextCov]_vars

\* The kernels that mutate a working array: order statistics and cov.
InitFrame == InitOrder \/ InitCov

NextFrame ==
    \/ NextOrder
    \/ NextCov

SpecFrame == InitFrame /\ [][NextFrame]_vars

(***************************************************************************)
(* In-place kernels: fill_diagonal and round into an output array          *)
(* An array is its flat (C order) contents and its shape; the target of    *)
(* the call is args.a, which the call rewrites.  A kernel's state st is    *)
(* the target, the set of flat positions written and what was raised.      *)
(***************************************************************************)
MaxDim == 3

\* A finite value outside the range of the target's dtype, whose
\* representable values are v_min..v_max.
TooBig == PosInf + 1
v_max == MaxVal
v_min == 0 - MaxVal

RECURSIVE Prod(_, _)
\* shape[1] * ... * shape[k]
Prod(shape, k) == IF k = 0 THEN 1 ELSE shape[k] * Prod(shape, k - 1)

RECURSIVE CumprodSum(_, _)
\* (np.cumprod(shape[:k])).sum()
CumprodSum(shape, k) == IF k = 0 THEN 0 ELSE Prod(shape, k) + CumprodSum(shape, k - 1)

Min2(x, y) == IF x < y THEN x ELSE y

FillParams(raised, end, step) == [raised |-> raised, end |-> end, step |-> step]

\* Parameters that run to the end of the array whatever wrap is.
FillParamsAlwaysWrap(shape, wrap) == FillParams("none", Prod(shape, Len(shape)), 1 + shape[2])

\* _fill_diagonal_params(a, wrap) from a.shape
_fill_diagonal_params(shape, wrap) ==
    IF Len(shape) = 2
    THEN FillParams("none",
                    IF wrap THEN shape[2] * shape[1] ELSE shape[2] * Min2(shape[1], shape[2]),
                    1 + shape[2])
    ELSE IF \E d \in 1..(Len(shape) - 1) : shape[d + 1] - shape[d] # 0
         THEN FillParams("ValueError", 0, 0)
    ELSE FillParams("none", Prod(shape, Len(shape)), 1 + CumprodSum(shape, Len(shape) - 1))

InPlace(a, written, raised) == [a |-> a, written |-> written, raised |-> raised]

\* a.flat[i] = v
WriteFlat(st, i, v) == InPlace([st.a EXCEPT ![i] = v], st.written \cup {i}, st.raised)

RECURSIVE FillScalarLoop(_, _, _, _, _)
\* _fill_diagonal_scalar: for i in range(0, end, step): a.flat[i] = val
FillScalarLoop(st, val, i, end, step) ==
    IF i >= end THEN st
    ELSE FillScalarLoop(WriteFlat(st, i, val), val, i + step, end, step)

RECURSIVE FillLoop(_, _, _, _, _, _, _)
RECURSIVE FillNext(_, _, _, _, _, _, _)
\* ctr += 1; ctr = ctr % v_len, which raises for an empty val
FillNext(st, val, i, end, step, ctr, garbage) ==
    IF len(val) = 0 THEN InPlace(st.a, st.written, "ZeroDivisionError")
    ELSE FillLoop(st, val, i + step, end, step, (ctr + 1) % len(val), garbage)

\* _fill_diagonal: a.flat[i] = val[ctr]; val[0] of an empty val is a read
\* outside the array, which gives `garbage`.
FillLoop(st, val, i, end, step, ctr, garbage) ==
    IF i >= end THEN st
    ELSE FillNext(WriteFlat(st, i, IF len(val) = 0 THEN garbage ELSE val[ctr]),
                  val, i, end, step, ctr, garbage)

\* _check_val_int / _check_val_float on tmpval: TRUE when it raises
CheckRaises(dtype, tmpval) ==
    IF dtype = "Integer"
    THEN \E j \in DOMAIN tmpval :
            ~isfinite(tmpval[j]) \/ tmpval[j] < v_min \/ tmpval[j] > v_max
    ELSE \E j \in DOMAIN tmpval :
            isfinite(tmpval[j]) /\ (tmpval[j] < v_min \/ tmpval[j] > v_max)

\* tmpval = _asarray(val).flatten(); a scalar val is held as its one-item
\* array val.v
AsFlat(val) == val.v

\* _fill_diagonal_scalar / _fill_diagonal once the parameters p are known
FillAfterCheck(st, shape, val, wrap, p, garbage) ==
    IF p.raised # "none" THEN InPlace(st.a, st.written, p.raised)
    ELSE IF val.scalar THEN FillScalarLoop(st, val.v[0], 0, p.end, p.step)
    ELSE FillLoop(st, val.v, 0, p.end, p.step, 0, garbage)

\* scalar_impl / non_scalar_impl of np_fill_diagonal
fill_diagonal_impl(a, shape, dtype, val, wrap, garbage) ==
    IF CheckRaises(dtype, AsFlat(val)) THEN InPlace(a, {}, "ValueError")
    ELSE FillAfterCheck(InPlace(a, {}, "none"), shape, val, wrap,
                        _fill_diagonal_params(shape, wrap), garbage)

\* np.round(val, decimals) of an integer for decimals 0 and -1: round half
\* to even, on val / 10 for -1
RoundHalfEven(q, r, base) ==
    IF 2 * r < base THEN q
    ELSE IF 2 * r > base THEN q + 1
    ELSE IF q % 2 = 0 THEN q ELSE q + 1

round_ndigits(x, ndigits) ==
    IF ndigits >= 0 THEN x
    ELSE 10 * RoundHalfEven(x \div 10, x % 10, 10)

RECURSIVE RoundLoop(_, _, _, _)
\* for index, val in np.ndenumerate(arr): out[index] = np.round(val, decimals)
RoundLoop(st, arr, decimals, i) ==
    IF i >= len(arr) THEN st
    ELSE RoundLoop(WriteFlat(st, i, round_ndigits(arr[i], decimals)), arr, decimals, i + 1)

\* array_round_impl(arr, decimals, out) on 1-D arrays
array_round_impl(arr, decimals, out) ==
    IF len(arr) # len(out) THEN InPlace(out, {}, "ValueError")
    ELSE RoundLoop(InPlace(out, {}, "none"), arr, decimals, 0)

\* Shapes of rank 2, and of rank 3 with short sides.
FillShapes == ((1..MaxDim) \X (1..MaxDim)) \cup ((1..2) \X (1..2) \X (1..2))

FillVals ==
    {[scalar |-> TRUE, v |-> [j \in 0..0 |-> x]] : x \in {0, MaxVal, NaN, TooBig}}
    \cup {[scalar |-> FALSE, v |-> x] : x \in Arrays({1, MaxVal, TooBig}, 2)}

RoundVals == {0, 1, 5, 15}

\* The target starts filled with one value, args.fill.
InitFillDiagonal ==
    /\ pc = "call"
    /\ ret = NoRet
    /\ op = "fill_diagonal"
    /\ \E shape \in FillShapes, val \in FillVals, wrap \in BOOLEAN :
         \E dtype \in {"Integer", "Float"}, fill \in {0, 1}, garbage \in {0, MaxVal} :
            args = [a |-> [j \in 0..(Prod(shape, Len(shape)) - 1) |-> fill],
                    shape |-> shape, dtype |-> dtype, val |-> val, wrap |-> wrap,
                    fill |-> fill, garbage |-> garbage]

InitRound ==
    /\ pc = "call"
    /\ ret = NoRet
    /\ op = "round"
    /\ \E arr \in Arrays(RoundVals, 2), n \in 0..2, decimals \in {0 - 1, 0}, fill \in {0, 1} :
            args = [a |-> [j \in 0..(n - 1) |-> fill], arr |-> arr,
                    decimals |-> decimals, fill |-> fill]

\* The result of the kernel st becomes the target and the record of the call.
CallFillDiagonal ==
    /\ pc = "call" /\ op = "fill_diagonal"
    /\ ret' = [raised |-> fill_diagonal_impl(args.a, args.shape, args.dtype, args.val,
                                            args.wrap, args.garbage).raised,
               written |-> fill_diagonal_impl(args.a, args.shape, args.dtype, args.val,
                                              args.wrap, args.garbage).written]
    /\ args' = [args EXCEPT !.a = fill_diagonal_impl(args.a, args.shape, args.dtype,
                                                     args.val, args.wrap, args.garbage).a]
    /\ pc' = "done"
    /\ UNCHANGED op

CallRound ==
    /\ pc = "call" /\ op = "round"
    /\ ret' = [raised |-> array_round_impl(args.arr, args.decimals, args.a).raised,
               written |-> array_round_impl(args.arr, args.decimals, args.a).written]
    /\ args' = [args EXCEPT !.a = array_round_impl(args.arr, args.decimals, args.a).a]
    /\ pc' = "done"
    /\ UNCHANGED op

InitInPlace == InitFillDiagonal \/ InitRound

NextInPlace ==
    \/ CallFillDiagonal
    \/ CallRound

SpecInPlace == InitInPlace /\ [][NextInPlace]_vars

(***************************************************************************)
(* Declaration of a GPU-vectorized function (numbapro.vectorize) and the   *)
(* test of its argument-count error.  A signature is the number of its     *)
(* arguments, a function the number of its parameters, a message the       *)
(* sequence of its words.                                                  *)
(***************************************************************************)
MaxArity == 3
MaxSigs == 2

NargMessage == <<"mismatching", "#", "of", "args">>
ExpectingMessage == <<"Excepting", "an", "expection">>

\* needle in str(e)
MsgContains(needle, msg) ==
    \E i \in 1..(Len(msg) + 1) :
        /\ i + Len(needle) - 1 <= Len(msg)
        /\ SubSeq(msg, i, i + Len(needle) - 1) = needle

Outcome(raised, msg, declared) == [raised |-> raised, msg |-> msg, declared |-> declared]

\* The declaration with no check of the signatures.
VectorizeUnchecked(sig, nparams) == Outcome("none", << >>, TRUE)

\* vectorize(sig, target='gpu')(func): every signature is compared with
\* the parameters of func when the function is declared.
vectorize(sig, nparams) ==
    IF \E k \in DOMAIN sig : sig[k] # nparams
    THEN Outcome("TypeError", NargMessage, FALSE)
    ELSE Outcome("none", << >>, TRUE)

\* The try / except TypeError / else of the test.
TestOutcome(r) ==
    IF r.raised = "TypeError"
    THEN IF MsgContains(NargMessage, r.msg)
         THEN Outcome("none", << >>, FALSE)
         ELSE Outcome("AssertionError", << >>, FALSE)
    ELSE IF r.raised = "none"
         THEN Outcome("AssertionError", ExpectingMessage, r.declared)
         ELSE r

\* discriminant(a, b, c) declared with two signatures of two arguments.
test_narg_error == TestOutcome(vectorize(<<2, 2>>, 3))

Signatures ==
    UNION {[1..n -> 0..MaxArity] : n \in 1..MaxSigs}

InitVectorize ==
    /\ op = "vectorize"
    /\ \E sig \in Signatures : \E nparams \in 0..MaxArity :
           args = [sig |-> sig, nparams |-> nparams]
    /\ ret = Outcome("none", << >>, FALSE)
    /\ pc = "call"

InitTestNargError ==
    /\ op = "test_narg_error"
    /\ args = [sig |-> <<2, 2>>, nparams |-> 3]
    /\ ret = Outcome("none", << >>, FALSE)
    /\ pc = "call"

CallVectorize ==
    /\ pc = "call" /\ op = "vectorize"
    /\ ret' = vectorize(args.sig, args.nparams)
    /\ pc' = "done"
    /\ UNCHANGED <<op, args>>

CallTestNargError ==
    /\ pc = "call" /\ op = "test_narg_error"
    /\ ret' = test_narg_error
    /\ pc' = "done"
    /\ UNCHANGED <<op, args>>

InitDeclare == InitVectorize \/ InitTestNargError

NextDeclare ==
    \/ CallVectorize
    \/ CallTestNargError

SpecDeclare == InitDeclare /\ [][NextDeclare]_vars

(***************************************************************************)
(* digitize                                                                *)
(***************************************************************************)
RECURSIVE BinsLoop(_, _, _, _)
\* for i in range(1, n): the two flags, and the raise once both are lost
BinsLoop(bins, i, is_increasing, is_decreasing) ==
    IF i >= len(bins) THEN [raised |-> "none", is_increasing |-> is_increasing]
    ELSE IF ~(is_increasing /\ ~less_than(bins[i], bins[i - 1]))
            /\ ~(is_decreasing /\ ~less_than(bins[i - 1], bins[i]))
         THEN [raised |-> "ValueError", is_increasing |-> FALSE]
    ELSE BinsLoop(bins, i + 1,
                  is_increasing /\ ~less_than(bins[i], bins[i - 1]),
                  is_decreasing /\ ~less_than(bins[i - 1], bins[i]))

are_bins_increasing(bins) == BinsLoop(bins, 1, TRUE, TRUE)

\* A comparison that takes no account of right.
BinBelowAlwaysLe(right, b, x) == le(b, x)

\* bins[mid] < x when right, bins[mid] <= x otherwise
BinBelow(right, b, x) == IF right THEN less_than(b, x) ELSE le(b, x)

RECURSIVE DigitizeBisect(_, _, _, _, _)
\* while hi > lo, for increasing bins
DigitizeBisect(x, bins, right, lo, hi) ==
    IF ~(hi > lo) THEN lo
    ELSE IF BinBelow(right, bins[(lo + hi) \div 2], x)
         THEN DigitizeBisect(x, bins, right, ((lo + hi) \div 2) + 1, hi)
         ELSE DigitizeBisect(x, bins, right, lo, (lo + hi) \div 2)

digitize_scalar(x, bins, right) ==
    IF isnan(x) THEN (IF right THEN LastNonNaN(bins, len(bins)) ELSE len(bins))
    ELSE DigitizeBisect(x, bins, right, 0, len(bins))

RECURSIVE FirstNonNaN(_, _)
\* for i in range(0, n): if not np.isnan(bins[i]): return i
FirstNonNaN(bins, i) ==
    IF i >= len(bins) THEN len(bins)
    ELSE IF ~isnan(bins[i]) THEN i
    ELSE FirstNonNaN(bins, i + 1)

RECURSIVE DigitizeBisectDecreasing(_, _, _, _, _)
\* while hi > lo, for decreasing bins
DigitizeBisectDecreasing(x, bins, right, lo, hi) ==
    IF ~(hi > lo) THEN lo
    ELSE IF BinBelow(right, bins[(lo + hi) \div 2], x)
         THEN DigitizeBisectDecreasing(x, bins, right, lo, (lo + hi) \div 2)
         ELSE DigitizeBisectDecreasing(x, bins, right, ((lo + hi) \div 2) + 1, hi)

digitize_scalar_decreasing(x, bins, right) ==
    IF isnan(x) THEN (IF right THEN FirstNonNaN(bins, 0) ELSE 0)
    ELSE DigitizeBisectDecreasing(x, bins, right, 0, len(bins))

\* The loop over the items of x after the one call of are_bins_increasing.
DigitizeOut(x, bins, right, is_increasing) ==
    [i \in DOMAIN x |-> IF is_increasing THEN digitize_scalar(x[i], bins, right)
                        ELSE digitize_scalar_decreasing(x[i], bins, right)]

\* validations is the number of calls of are_bins_increasing.
DigitizeAfterCheck(x, bins, right, checked) ==
    IF checked.raised # "none"
    THEN [raised |-> checked.raised, out |-> <<>>, validations |-> 1]
    ELSE [raised |-> "none", out |-> DigitizeOut(x, bins, right, checked.is_increasing),
          validations |-> 1]

digitize_impl(x, bins, right) ==
    DigitizeAfterCheck(x, bins, right, are_bins_increasing(bins))

InitDigitize ==
    /\ pc = "call"
    /\ ret = NoRet
    /\ op = "digitize"
    /\ \E bins \in Arrays(Vals, MaxEdges) : \E x \in Arrays(Vals \cup {0 - 1}, MaxItems) :
         \E right \in BOOLEAN :
            args = [x |-> x, bins |-> bins, right |-> right]

CallDigitize ==
    /\ pc = "call" /\ op = "digitize"
    /\ ret' = digitize_impl(args.x, args.bins, args.right)
    /\ pc' = "done"
    /\ UNCHANGED <<op, args>>

NextDigitize ==
    \/ CallDigitize

SpecDigitize == InitDigitize /\ [][NextDigitize]_vars

(***************************************************************************)
(* One call of the partition routine on a range of a longer array.         *)
(***************************************************************************)
\* 0 <= low <= high < len(A)
Ranges(n) == {r \in (0..(n - 1)) \X (0..(n - 1)) : r[1] <= r[2]}

InitPartitionCall ==
    /\ pc = "call"
    /\ ret = NoRet
    /\ op = "_partition"
    /\ \E n \in 1..MaxLen : \E A \in [0..(n - 1) -> Vals] : \E r \in Ranges(n) :
         \E w \in BOOLEAN :
            args = [w |-> w, A |-> A, low |-> r[1], high |-> r[2]]

CallPartitionRoutine ==
    /\ pc = "call" /\ op = "_partition"
    /\ ret' = [raised |-> "none"] @@ _partition(args.w, args.A, args.low, args.high)
    /\ pc' = "done"
    /\ UNCHANGED <<op, args>>

(***************************************************************************)
(* _select and _select_two iteration by iteration: pc is "call" before the *)
(* first statement, "two" at the head of the loop of _select_two, "loop"   *)
(* at the test of the loop of _select, "done" after the return.  ret is    *)
(* the running state: the array, the range [low, high], the index i the    *)
(* last partitioning returned and the target k of the running _select.     *)
(***************************************************************************)
MaxSel == 4

SelVals == {0, 1, NaN}

Running(p, k, low, high) ==
    [raised |-> "none", A |-> p.A, i |-> p.i, k |-> k, low |-> low, high |-> high]

\* A narrowing that keeps the pivot in the range.
NarrowLowKeepsPivot(i) == i

\* low = i + 1
NarrowLow(i) == i + 1

\* high = i - 1
NarrowHigh(i) == i - 1

\* i = partitionimpl(arry, low, high) on entry to _select
EnterSelect(w, arry, k, low, high) ==
    Running(_partition(w, arry, low, high), k, low, high)

InitSelectSteps ==
    /\ pc = "call"
    /\ ret = NoRet
    /\ op = "_select"
    /\ \E A \in Arrays(SelVals, MaxSel), w \in BOOLEAN :
         \E high \in 0..(len(A) - 1) : \E k \in 0..high : \E low \in 0..k :
            args = [A |-> A, k |-> k, low |-> low, high |-> high, w |-> w]

InitSelectTwoSteps ==
    /\ pc = "call"
    /\ ret = NoRet
    /\ op = "_select_two"
    /\ \E A \in Arrays(SelVals, MaxSel) :
         \E high \in 0..(len(A) - 1) : \E k \in 0..(high - 1) : \E low \in 0..k :
            args = [A |-> A, k |-> k, low |-> low, high |-> high, w |-> FALSE]

SelectEnter ==
    /\ pc = "call" /\ op = "_select"
    /\ ret' = EnterSelect(args.w, args.A, args.k, args.low, args.high)
    /\ pc' = "loop"
    /\ UNCHANGED <<op, args>>

\* while i != k: narrow to the side of i that holds k and partition again
SelectNarrow ==
    /\ pc = "loop" /\ ret.i # ret.k
    /\ ret' = IF ret.i < ret.k
              THEN EnterSelect(args.w, ret.A, ret.k, NarrowLow(ret.i), ret.high)
              ELSE EnterSelect(args.w, ret.A, ret.k, ret.low, NarrowHigh(ret.i))
    /\ pc' = "loop"
    /\ UNCHANGED <<op, args>>

\* return arry[k]
SelectReturn ==
    /\ pc = "loop" /\ ret.i = ret.k
    /\ ret' = ret
    /\ pc' = "done"
    /\ UNCHANGED <<op, args>>

SelectTwoEnter ==
    /\ pc = "call" /\ op = "_select_two"
    /\ ret' = [raised |-> "none", A |-> args.A, i |-> 0 - 1, k |-> args.k,
               low |-> args.low, high |-> args.high]
    /\ pc' = "two"
    /\ UNCHANGED <<op, args>>

\* One iteration of "while True", after _partition gave p.
SelectTwoAfter(p, st) ==
    IF p.i < st.k THEN Running(p, st.k, NarrowLow(p.i), st.high)
    ELSE IF p.i > st.k + 1 THEN Running(p, st.k, st.low, NarrowHigh(p.i))
    ELSE IF p.i = st.k THEN EnterSelect(FALSE, p.A, st.k + 1, p.i + 1, st.high)
    ELSE EnterSelect(FALSE, p.A, st.k, st.low, p.i - 1)

\* assert high > low, then the iteration; the two last branches enter _select
SelectTwoIterate ==
    /\ pc = "two"
    /\ IF ~(ret.high > ret.low)
       THEN /\ ret' = [ret EXCEPT !.raised = "AssertionError"]
            /\ pc' = "done"
       ELSE /\ ret' = SelectTwoAfter(_partition(FALSE, ret.A, ret.low, ret.high), ret)
            /\ pc' = IF _partition(FALSE, ret.A, ret.low, ret.high).i \in {ret.k, ret.k + 1}
                     THEN "loop" ELSE "two"
    /\ UNCHANGED <<op, args>>

InitQuickselect == InitPartitionCall \/ InitSelectSteps \/ InitSelectTwoSteps

NextQuickselect ==
    \/ CallPartitionRoutine
    \/ SelectEnter
    \/ SelectNarrow
    \/ SelectReturn
    \/ SelectTwoEnter
    \/ SelectTwoIterate

\* A call runs on one thread, from statement to statement, until it
\* returns: a step that can be taken is taken.  This is weak fairness of
\* NextQuickselect, whose enabling condition is pc # "done": every other
\* value of pc is the guard of an action that changes pc or ret.
RunsOn == []<>(pc = "done") \/ []<><<NextQuickselect>>_vars

SpecQuickselect == InitQuickselect /\ [][NextQuickselect]_vars /\ RunsOn

(***************************************************************************)
(* bincount.  weighted = FALSE is the variant compiled for weights=None.   *)
(* The result records the number of calls of count_item (writes) and       *)
(* whether one of them used an index outside out (wild): such a store is   *)
(* not bounds-checked, so the outcome of the call is then either a normal  *)
(* return or a crash.                                                      *)
(***************************************************************************)
validate_inputs(a, weighted, weights) ==
    IF weighted /\ len(a) # len(weights) THEN "ValueError" ELSE "none"

\* for i in range(1, n): the scan for a negative element and the maximum.
RECURSIVE BincountScan(_, _, _)
BincountScan(a, i, a_max) ==
    IF i >= len(a) THEN [raised |-> "none", a_max |-> a_max]
    ELSE IF a[i] < 0 THEN [raised |-> "ValueError", a_max |-> a_max]
    ELSE BincountScan(a, i + 1, IF a[i] > a_max THEN a[i] ELSE a_max)

\* A negative index counts from the end of the array.
WrapIndex(val, n) == IF val < 0 THEN val + n ELSE val

Increment(idx, weighted, weights) == IF weighted THEN weights[idx] ELSE 1

StoreAt(st, at, by) ==
    IF at \in DOMAIN st.out
    THEN [out |-> [st.out EXCEPT ![at] = @ + by], wild |-> st.wild,
          writes |-> st.writes + 1]
    ELSE [out |-> st.out, wild |-> TRUE, writes |-> st.writes + 1]

\* out[val] += weights[idx], or out[val] += 1
count_item(st, idx, val, weighted, weights) ==
    StoreAt(st, WrapIndex(val, len(st.out)), Increment(idx, weighted, weights))

RECURSIVE BincountFill(_, _, _, _, _)
BincountFill(st, a, i, weighted, weights) ==
    IF i >= len(a) THEN st
    ELSE BincountFill(count_item(st, i, a[i], weighted, weights), a, i + 1,
                      weighted, weights)

\* np.zeros(a_max + 1, out_dtype)
BincountZeros(a_max) ==
    [out |-> [j \in 0..a_max |-> 0], wild |-> FALSE, writes |-> 0]

BincountReturn(st, unchecked) ==
    [raised |-> IF st.wild THEN unchecked ELSE "none", out |-> st.out,
     wild |-> st.wild, writes |-> st.writes]

BincountRaise(e) == [raised |-> e, out |-> <<>>, wild |-> FALSE, writes |-> 0]

BincountAfterScan(scan, a, weighted, weights, unchecked) ==
    IF scan.raised # "none" THEN BincountRaise(scan.raised)
    ELSE BincountReturn(BincountFill(BincountZeros(scan.a_max), a, 0, weighted, weights),
                        unchecked)

bincount_impl(a, weighted, weights, unchecked) ==
    IF validate_inputs(a, weighted, weights) # "none"
    THEN BincountRaise(validate_inputs(a, weighted, weights))
    ELSE BincountAfterScan(BincountScan(a, 1, IF len(a) > 0 THEN a[0] ELSE 0 - 1),
                           a, weighted, weights, unchecked)

InitBincount ==
    /\ pc = "call"
    /\ ret = NoRet
    /\ op = "bincount"
    /\ \E a \in Arrays(Nums \cup {0 - 1}, MaxLen) :
         \/ args = [a |-> a, weighted |-> FALSE, weights |-> <<>>]
         \/ \E weights \in Arrays(1..2, MaxItems) :
              args = [a |-> a, weighted |-> TRUE, weights |-> weights]

CallBincount ==
    /\ pc = "call" /\ op = "bincount"
    /\ \E unchecked \in {"none", "crash"} :
         ret' = bincount_impl(args.a, args.weighted, args.weights, unchecked)
    /\ pc' = "done"
    /\ UNCHANGED <<op, args>>

NextBincount ==
    \/ CallBincount

SpecBincount == InitBincount /\ [][NextBincount]_vars

(***************************************************************************)
(* diff of a 1-D integer array.  Elements are signed integers of IntBits   *)
(* bits and the subtraction wraps.  work is allocated with np.empty:       *)
(* Uninit stands for an element never written.                             *)
(***************************************************************************)
IntBits == 4

MinInt == 0 - 2 ^ (IntBits - 1)
MaxInt == 2 ^ (IntBits - 1) - 1
Uninit == 2 ^ IntBits

WrapInt(x) == ((x - MinInt) % (2 ^ IntBits)) + MinInt

Sub(x, y) == IF x = Uninit \/ y = Uninit THEN Uninit ELSE WrapInt(x - y)

DiffElemBackward(w, i) == Sub(w[i], w[i + 1])
\* w[i + 1] - w[i]
DiffElem(w, i) == Sub(w[i + 1], w[i])

\* for i in range(size - 1): work[i] = a2[major, i + 1] - a2[major, i]
RECURSIVE DiffFirst(_, _, _, _)
DiffFirst(work, a, i, size) ==
    IF i >= size - 1 THEN work
    ELSE DiffFirst([work EXCEPT ![i] = DiffElem(a, i)], a, i + 1, size)

\* for i in range(size - niter - 1): work[i] = work[i + 1] - work[i]
RECURSIVE DiffInto(_, _, _)
DiffInto(work, i, stop) ==
    IF i >= stop THEN work
    ELSE DiffInto([work EXCEPT ![i] = DiffElem(work, i)], i + 1, stop)

\* for niter in range(1, n)
RECURSIVE DiffIterate(_, _, _, _)
DiffIterate(work, niter, n, size) ==
    IF niter >= n THEN work
    ELSE DiffIterate(DiffInto(work, 0, size - niter - 1), niter + 1, n, size)

\* work = np.empty(size, a.dtype)
DiffWork(size) == [j \in 0..(size - 1) |-> Uninit]

\* out2[major] = work[:size - n]
DiffCopyOut(work, size, n) == [j \in 0..(size - n - 1) |-> work[j]]

diff_impl(a, n) ==
    IF n = 0 THEN [raised |-> "none", out |-> a]
    ELSE IF n < 0 THEN [raised |-> "ValueError", out |-> <<>>]
    ELSE IF len(a) - n <= 0 THEN [raised |-> "none", out |-> <<>>]
    ELSE [raised |-> "none",
          out |-> DiffCopyOut(DiffIterate(DiffFirst(DiffWork(len(a)), a, 0, len(a)),
                                          1, n, len(a)),
                              len(a), n)]

DiffVals == {MinInt, 0 - 1, 0, 1, MaxInt}

InitDiff ==
    /\ pc = "call"
    /\ ret = NoRet
    /\ op = "diff"
    /\ \E a \in Arrays(DiffVals, MaxLen) : \E n \in (0 - 1)..(MaxLen + 1) :
         args = [a |-> a, n |-> n]

CallDiff ==
    /\ pc = "call" /\ op = "diff"
    /\ ret' = diff_impl(args.a, args.n)
    /\ pc' = "done"
    /\ UNCHANGED <<op, args>>

NextDiff ==
    \/ CallDiff

SpecDiff == InitDiff /\ [][NextDiff]_vars

(***************************************************************************)
(* Reference notions the claims are stated with.                           *)
(***************************************************************************)
NoNaN(A) == \A j \in DOMAIN A : ~isnan(A[j])

\* The order of a full sort (numpy.sort): numbers ascending, NaN last.
sort_le(a, b) == isnan(b) \/ (~isnan(a) /\ a <= b)
sort_lt(a, b) == sort_le(a, b) /\ a # b

\* The element a full sort of A[low..high] places at index k.
SortedAt(A, low, high, k) ==
    CHOOSE v \in {A[j] : j \in low..high} :
        /\ Cardinality({j \in low..high : sort_lt(A[j], v)}) <= k - low
        /\ k - low < Cardinality({j \in low..high : sort_le(A[j], v)})

IsPermutation(A, B) ==
    /\ DOMAIN A = DOMAIN B
    /\ \A v \in XVals : CountOf(A, v) = CountOf(B, v)

Done(o) == pc = "done" /\ op = o

(***************************************************************************)
(* C1: median                                                              *)
(***************************************************************************)
MedianOfSorted(a) ==
    IF len(a) % 2 = 1
    THEN <<SortedAt(a, 0, len(a) - 1, len(a) \div 2), 1>>
    ELSE <<SortedAt(a, 0, len(a) - 1, (len(a) \div 2) - 1)
           + SortedAt(a, 0, len(a) - 1, len(a) \div 2), 2>>

\* C1: for every non-empty NaN-free array a, median(a) is the middle element
\* of the sorted a when len(a) is odd and the average of the two middle
\* elements when it is even.
C1_MedianIsMiddleOfSort ==
    (Done("median") /\ len(args.a) >= 1 /\ NoNaN(args.a))
        => (ret.raised = "none" /\ REq(ret.val, MedianOfSorted(args.a)))

\* An even-length median of unsorted distinct items whose average is no integer.
C1_Witness ==
    /\ Done("median") /\ len(args.a) = 4 /\ NoNaN(args.a)
    /\ args.a[0] > args.a[1] /\ ret.np >= 2
    /\ ret.raised = "none" /\ ret.val[2] = 2 /\ ret.val[1] % 2 = 1

(***************************************************************************)
(* C2: _select                                                             *)
(***************************************************************************)
SelectPost ==
    /\ ret.val = SortedAt(args.A, args.low, args.high, args.k)
    /\ IsPermutation(ret.A, args.A)
    /\ ret.A[args.k] = ret.val

\* C2 as stated: for every array A and low <= k <= high inside A,
\* _select(A, k, low, high) returns the element a full sort of A[low..high]
\* places at index k, leaving A a permutation of itself with A[k] the result.
C2_SelectKthAnyArray ==
    (Done("_select") /\ ~args.w) => SelectPost

\* C2 (amended): the same for every array A that holds no NaN.
C2_SelectKth ==
    (Done("_select") /\ ~args.w /\ NoNaN(args.A)) => SelectPost

\* The scenario of the specification: the middle of three unsorted distinct
\* items, found after more than one partitioning.
C2_Witness ==
    /\ Done("_select") /\ ~args.w /\ NoNaN(args.A)
    /\ len(args.A) = 3 /\ args.low = 0 /\ args.k = 1 /\ args.high = 2
    /\ args.A[0] > args.A[2] /\ args.A[2] > args.A[1]
    /\ ret.val = args.A[2]

(***************************************************************************)
(* C3: _select_two                                                         *)
(***************************************************************************)
SelectTwoPost ==
    /\ ret.raised = "none"
    /\ ret.a = SortedAt(args.A, args.low, args.high, args.k)
    /\ ret.b = SortedAt(args.A, args.low, args.high, args.k + 1)

\* C3 as stated: for every array A and low <= k, k + 1 <= high,
\* _select_two(A, k, low, high) returns (sorted[k], sorted[k + 1]) of the
\* sorted A[low..high] and its assertion high > low never fails.
C3_SelectTwoAnyArray ==
    Done("_select_two") => SelectTwoPost

\* C3 (amended): the same for every array A that holds no NaN.
C3_SelectTwo ==
    (Done("_select_two") /\ NoNaN(args.A)) => SelectTwoPost

\* The assertion alone, on every array.
C3_AssertionHolds ==
    Done("_select_two") => ret.raised = "none"

\* A pair found inside a longer range after the range was narrowed.
C3_Witness ==
    /\ Done("_select_two") /\ NoNaN(args.A)
    /\ len(args.A) = 4 /\ args.low = 0 /\ args.high = 3 /\ args.k = 1
    /\ ret.np >= 3 /\ ret.a < ret.b

(***************************************************************************)
(* C4, C5: zero-size input                                                 *)
(***************************************************************************)
\* C4: for a zero-size input each of min, max, median and argmin raises a
\* ValueError-class error and has allocated no array when it raises.
C4_ZeroSizeRaisesNoAlloc ==
    (pc = "done" /\ op \in {"min", "max", "median", "argmin"} /\ len(args.a) = 0)
        => (ret.raised = "ValueError" /\ ret.allocs = 0)

OrderOps == {"median", "nanmedian", "partition"} \cup PctOps

IsSorted(a) == \A i, j \in DOMAIN a : i <= j => a[i] <= a[j]

\* a with v inserted at idx
InsertAt(a, v, idx) ==
    [j \in 0..len(a) |-> IF j < idx THEN a[j] ELSE IF j = idx THEN v ELSE a[j - 1]]

\* C6: for every sorted NaN-free a and non-NaN v, side 'left' returns idx
\* with a[:idx] < v <= a[idx:], side 'right' returns idx with
\* a[:idx] <= v < a[idx:]; 0 <= idx <= len(a) and inserting v at idx keeps a
\* sorted.
C6_SearchsortedBrackets ==
    (Done("searchsorted") /\ args.side \in {"left", "right"}
        /\ NoNaN(args.a) /\ IsSorted(args.a) /\ ~isnan(args.v))
    => /\ ret.raised = "none"
       /\ ret.val \in 0..len(args.a)
       /\ args.side = "left" =>
            \A j \in DOMAIN args.a : IF j < ret.val THEN args.a[j] < args.v
                                                    ELSE args.a[j] >= args.v
       /\ args.side = "right" =>
            \A j \in DOMAIN args.a : IF j < ret.val THEN args.a[j] <= args.v
                                                    ELSE args.a[j] > args.v
       /\ IsSorted(InsertAt(args.a, args.v, ret.val))

\* A left search for a value the array holds twice, between smaller and
\* larger items.
C6_Witness ==
    /\ Done("searchsorted") /\ args.side = "left"
    /\ NoNaN(args.a) /\ IsSorted(args.a) /\ len(args.a) = 4
    /\ args.a[0] < args.v /\ args.a[1] = args.v /\ args.a[2] = args.v
    /\ args.a[3] > args.v /\ ret.val = 1

(***************************************************************************)
(* C7: histogram                                                           *)
(***************************************************************************)
RECURSIVE SumTo(_, _)
\* hist[0] + ... + hist[n - 1]
SumTo(hist, n) == IF n = 0 THEN 0 ELSE hist[n - 1] + SumTo(hist, n - 1)

Outside(a, lo, hi) == Cardinality({j \in DOMAIN a : ~(le(lo, a[j]) /\ le(a[j], hi))})

\* C7: for every array a, bins > 0 and range (lo, hi) with lo <= hi,
\* including lo = hi, sum(counts) + |items of a outside [lo, hi]| = len(a).
C7_HistogramCountsAll ==
    (Done("histogram") /\ args.bins > 0 /\ le(args.range[1], args.range[2]))
    => /\ ret.raised = "none"
       /\ SumTo(ret.hist, args.bins) + Outside(args.a, args.range[1], args.range[2])
            = len(args.a)

\* The same for lo < hi, which the bucketing loop does satisfy.
C7_HistogramCountsProperRange ==
    (Done("histogram") /\ args.bins > 0 /\ less_than(args.range[1], args.range[2]))
    => /\ ret.raised = "none"
       /\ SumTo(ret.hist, args.bins) + Outside(args.a, args.range[1], args.range[2])
            = len(args.a)

(***************************************************************************)
(* C8: interp at a sample point                                            *)
(***************************************************************************)
\* Query q of the call is a sample point and dres[q] is the value of a sample
\* with the same abscissa, stored without the slope formula.
ExactAtSample(q) ==
    /\ ~ret.dres[q].evaluated
    /\ \E j \in DOMAIN args.xp : args.xp[j] = args.x[q] /\ ret.dres[q].val = ToRat(args.fp[j])

IsSampleQuery(q) == \E i \in DOMAIN args.xp : args.xp[i] = args.x[q]

\* C8: for every sorted xp of length >= 1, fp of the same length and index
\* i, interp(xp[i], xp, fp) returns exactly fp[j] for a sample j with
\* xp[j] = xp[i], without evaluating slope * (x - xp[j]) + fp[j].
C8_InterpExactAtSamples ==
    (Done("interp") /\ len(args.xp) >= 1 /\ len(args.fp) = len(args.xp))
    => /\ ret.raised = "none"
       /\ \A q \in DOMAIN args.x : IsSampleQuery(q) => ExactAtSample(q)

\* C8 for the kernel selected under NumPy 1.16 and later
\* (np_interp_impl_inner_116): a query equal to a sample returns that
\* sample's value exactly and the slope formula is not evaluated.
C8_InterpExactAtSamples116 ==
    (Done("interp") /\ args.np116 /\ len(args.xp) >= 1 /\ len(args.fp) = len(args.xp))
    => /\ ret.raised = "none"
       /\ \A q \in DOMAIN args.x : IsSampleQuery(q) => ExactAtSample(q)

\* A query equal to an inner sample next to an infinite value is answered
\* with the sample's value by the 1.16 kernel.
C8_Witness ==
    /\ Done("interp") /\ args.np116
    /\ len(args.xp) = 3 /\ len(args.fp) = 3 /\ len(args.x) = 1
    /\ args.xp[0] < args.xp[1] /\ args.xp[1] < args.xp[2]
    /\ args.x[0] = args.xp[1]
    /\ args.fp[1] = MaxVal /\ args.fp[2] = PosInf
    /\ ret.dres[0] = Stored(<<MaxVal, 1>>, FALSE)

(***************************************************************************)
(* C9: binary_search_with_guess                                            *)
(***************************************************************************)
\* arr[j] <= key < arr[j + 1] for an index j below the last
Brackets(arr, j, key) ==
    /\ j \in 0..(len(arr) - 2)
    /\ arr[j] <= key
    /\ key < arr[j + 1]

\* C9: for every non-decreasing arr of length n >= 1, non-NaN key and
\* integer guess, binary_search_with_guess returns -1 when key < arr[0], n
\* when key >= arr[n-1], otherwise j with arr[j] <= key < arr[j+1]; no
\* index outside [0, n-1] is read.
C9_BracketAfterFromLast ==
    Done("binary_search_with_guess")
    => /\ args.key < args.arr[0] => ret.j = 0 - 1
       /\ args.key >= args.arr[args.length - 1] => ret.j = args.length
       /\ (args.key >= args.arr[0] /\ args.key < args.arr[args.length - 1])
            => Brackets(args.arr, ret.j, args.key)
       /\ ret.reads \subseteq 0..(args.length - 1)

\* C9 with the code's boundary: n is returned only when key > arr[n-1], and
\* a key equal to arr[n-1] gets n-1.
C9_Bracket ==
    Done("binary_search_with_guess")
    => /\ args.key < args.arr[0] => ret.j = 0 - 1
       /\ args.key > args.arr[args.length - 1] => ret.j = args.length
       /\ args.key = args.arr[args.length - 1] => ret.j = args.length - 1
       /\ (args.key >= args.arr[0] /\ args.key < args.arr[args.length - 1])
            => Brackets(args.arr, ret.j, args.key)
       /\ ret.reads \subseteq 0..(args.length - 1)

\* A search of a long array whose guess is far above the bracket: the cache
\* window below the guess is tested and the bracket lies inside it.
C9_Witness ==
    /\ Done("binary_search_with_guess")
    /\ args.length = LIKELY_IN_CACHE_SIZE + 4
    /\ args.guess = LIKELY_IN_CACHE_SIZE + 1
    /\ 1 \in ret.reads
    /\ ret.j \in 2..(LIKELY_IN_CACHE_SIZE - 1)
    /\ Brackets(args.arr, ret.j, args.key)

(***************************************************************************)
(* C10: sum with a literal axis out of range                               *)
(***************************************************************************)
\* axis >= 4, or the axis after adding the rank to a negative value is
\* >= the rank or < 0
AxisOutOfRange(ndim, axis) ==
    \/ axis > MaxUnrolledAxis
    \/ FixNegativeAxis(axis, ndim) >= ndim
    \/ FixNegativeAxis(axis, ndim) < 0

\* C10: a literal axis out of range makes the resolution itself fail; no
\* kernel is produced and there is no failure left for the run.
C10_LiteralAxisFailsAtResolution ==
    (op = "sum_axis" /\ pc # "call" /\ args.literal
        /\ AxisOutOfRange(len(args.shape), args.axis))
    => /\ ret.stage = "resolution"
       /\ ret.raised # "none"
       /\ ~ret.kernel

\* The part of C10 the resolution does enforce: an axis beyond the rank.
C10_LiteralAxisBeyondRank ==
    (op = "sum_axis" /\ pc # "call" /\ args.literal
        /\ (FixNegativeAxis(args.axis, len(args.shape)) > len(args.shape)
            \/ FixNegativeAxis(args.axis, len(args.shape)) < 0))
    => /\ ret.stage = "resolution"
       /\ ret.raised # "none"
       /\ ~ret.kernel

\* A literal axis equal to the rank fails in the run of the kernel.
C10_AxisEqualRankFailsAtRun ==
    (op = "sum_axis" /\ pc = "done" /\ args.literal /\ args.axis = len(args.shape))
    => ret.stage = "run" /\ ret.raised = "ValueError"

(***************************************************************************)
(* C11: resolution is total                                                *)
(***************************************************************************)
TypedErrors == {"TypingError", "TypeError", "ValueError", "no match"}

\* C11: for every function and every combination of argument kinds the
\* resolution either selects one implementation or fails with a typed error
\* (TypingError, TypeError, ValueError or 'no match'), never with an untyped
\* internal error; in particular for np.where with an Array condition.
C11_ResolutionTotal ==
    (pc = "done" /\ op \in {"where", "fill_diagonal"})
    => \/ ret.outcome = "selected" /\ ret.impl # "none"
       \/ ret.outcome = "failed" /\ ret.exc \in TypedErrors

\* The part that holds: np.where whose x and y are each an array, a number
\* or a boolean always selects an implementation.
C11_WhereArrayOrScalar ==
    (Done("where") /\ args.x \in {"Array", "Integer", "Float", "Complex", "Boolean"}
        /\ args.y \in {"Array", "Integer", "Float", "Complex", "Boolean"})
    => ret.outcome = "selected"

(***************************************************************************)
(* C12: percentile 0 and 100                                               *)
(***************************************************************************)
MinOf(a) == CHOOSE v \in {a[j] : j \in DOMAIN a} : \A j \in DOMAIN a : v <= a[j]
MaxOf(a) == CHOOSE v \in {a[j] : j \in DOMAIN a} : \A j \in DOMAIN a : v >= a[j]

\* C12: for every all-finite array a of length >= 1, percentile(a, 0) is
\* min(a) and percentile(a, 100) is max(a).
C12_PercentileEnds ==
    (Done("percentile") /\ len(args.a) >= 1 /\ AllFinite(args.a) /\ check_valid(args.q, 100))
    => /\ ret.raised = "none"
       /\ \A j \in DOMAIN args.q :
            /\ args.q[j] = 0 => ret.val[j] = <<MinOf(args.a), 1>>
            /\ args.q[j] = 100 => ret.val[j] = <<MaxOf(args.a), 1>>

\* Both ends asked of an array whose minimum is neither first nor last.
C12_Witness ==
    /\ Done("percentile") /\ len(args.a) = 3
    /\ args.a[0] = 1 /\ args.a[1] = 0 /\ args.a[2] = 1
    /\ len(args.q) = 2 /\ args.q[0] = 0 /\ args.q[1] = 100
    /\ ret.raised = "none" /\ ret.val[0] = <<0, 1>> /\ ret.val[1] = <<1, 1>>

(***************************************************************************)
(* C13: ranks are validated first                                          *)
(***************************************************************************)
\* Some rank is NaN, below 0 or above the bound (ranks of quantile are in
\* hundredths, so the bound is 100 for both).
SomeRankInvalid(q) == \E j \in DOMAIN q : isnan(q[j]) \/ q[j] < 0 \/ q[j] > 100

\* C13: in percentile, nanpercentile, quantile and nanquantile an invalid
\* rank (NaN, below 0, above the bound) raises ValueError before the data
\* array is read or any selection runs, with no partial result; ranks of
\* exactly 0 and exactly the bound are accepted.
C13_RanksValidatedFirst ==
    (pc = "done" /\ op \in PctOps)
    => /\ SomeRankInvalid(args.q)
            => /\ ret.raised = "ValueError"
               /\ ret.np = 0 /\ ret.sel = {} /\ ret.allocs = 1
               /\ ret.val = RNaN
       /\ ((\A j \in DOMAIN args.q : args.q[j] \in {0, 100}) /\ len(args.a) >= 1)
            => ret.raised = "none"

\* A valid rank followed by a NaN rank, on an array that could be ranked.
C13_Witness ==
    /\ Done("quantile") /\ len(args.a) = 2 /\ AllFinite(args.a)
    /\ len(args.q) = 2 /\ args.q[0] = 50 /\ isnan(args.q[1])
    /\ ret.raised = "ValueError" /\ ret.allocs = 1

(***************************************************************************)
(* C14: the two paths of cov                                               *)
(***************************************************************************)
\* C14: for every 1-D input m and every accepted bias and ddof (None,
\* integer or float) the scalar path of cov returns entry [0, 0] of the
\* matrix path on the same data and raises in exactly the same cases.
C14_CovPathsAgree ==
    Done("cov") => ret.scalar = ret.matrix

\* The paths do agree when ddof is None or an integer.
C14_CovPathsAgreeIntegerDdof ==
    (Done("cov") /\ args.ddof.kind # "Float") => ret.scalar = ret.matrix

(***************************************************************************)
(* C15: the caller's array is not mutated                                  *)
(***************************************************************************)
FrameOps == {"median", "nanmedian", "partition", "cov"} \cup PctOps

Diagonal(shape) == {i * shape[2] + i : i \in 0..(Min2(shape[1], shape[2]) - 1)}

\* The flat positions below m * n that are multiples of n + 1
WrappedDiagonal(shape) ==
    {p \in 0..(shape[1] * shape[2] - 1) : p % (shape[2] + 1) = 0}

\* Every position that was not written holds what the target started with.
OthersUnchanged == \A p \in DOMAIN args.a : p \notin ret.written => args.a[p] = args.fill

\* C16: fill_diagonal on a 2-D array of shape (m, n) writes with wrap=False
\* exactly the elements a[i, i], 0 <= i < min(m, n), and with wrap=True only
\* flat positions that are multiples of n + 1 below m * n; every other
\* element is unchanged.
C16_FillDiagonalFrame ==
    (pc = "done" /\ op = "fill_diagonal" /\ Len(args.shape) = 2)
    => /\ OthersUnchanged
       /\ ret.written \subseteq
            (IF args.wrap THEN WrappedDiagonal(args.shape) ELSE Diagonal(args.shape))
       /\ (ret.raised = "none" /\ ~args.wrap) => ret.written = Diagonal(args.shape)

\* A wide array filled without wrap from a two-item val: the whole diagonal
\* is written, and an off-diagonal multiple of n + 1 does not exist to write.
C16_Witness ==
    /\ pc = "done" /\ op = "fill_diagonal" /\ args.shape = <<3, 2>> /\ ~args.wrap
    /\ ~args.val.scalar /\ len(args.val.v) = 2
    /\ ret.raised = "none" /\ ret.written = {0, 3}
    /\ args.a[0] = args.val.v[0] /\ args.a[3] = args.val.v[1]

(***************************************************************************)
(* C17: an in-place kernel that raises has written nothing                 *)
(***************************************************************************)
\* C17: when fill_diagonal raises or round-into-output raises, no element
\* of the caller's array has been written.
C17_RaiseLeavesTarget ==
    (pc = "done" /\ op \in {"fill_diagonal", "round"} /\ ret.raised # "none")
    => /\ ret.written = {}
       /\ \A p \in DOMAIN args.a : args.a[p] = args.fill

\* The cases the claim lists: the value check, the check of equal
\* dimensions and the check of the output shape all raise ValueError
\* before the first write.
C17_ValueErrorLeavesTarget ==
    (pc = "done" /\ op \in {"fill_diagonal", "round"} /\ ret.raised = "ValueError")
    => /\ ret.written = {}
       /\ \A p \in DOMAIN args.a : args.a[p] = args.fill

(***************************************************************************)
(* C18: signatures with the wrong number of arguments                      *)
(***************************************************************************)
SomeSignatureMismatches == \E k \in DOMAIN args.sig : args.sig[k] # args.nparams

\* C18: declaring a GPU-vectorized function with a signature whose number
\* of arguments differs from the number of parameters of the function
\* raises a TypeError whose message contains 'mismatching # of args', and
\* the function is not declared; the test of this error passes.
C18_NargMismatchRaises ==
    /\ (Done("vectorize") /\ SomeSignatureMismatches)
       => /\ ret.raised = "TypeError"
          /\ MsgContains(NargMessage, ret.msg)
          /\ ~ret.declared
    /\ Done("test_narg_error") => (ret.raised = "none" /\ ~ret.declared)

\* Two signatures of two arguments for a function of three parameters.
C18_Witness ==
    /\ Done("vectorize")
    /\ args.sig = <<2, 2>> /\ args.nparams = 3
    /\ ret.raised = "TypeError"

(***************************************************************************)
(* C19: NaN queries of interp                                              *)
(***************************************************************************)
NaNQueries == {q \in DOMAIN args.x : isnan(args.x[q])}

PropagatesNaN(q) == RIsNaN(ret.dres[q].val) /\ q \notin ret.searched

\* C19: for every sample array xp of length >= 1, length exactly 1
\* included, each NaN query yields NaN in the output of interp and
\* binary_search_with_guess is not called for it.
C19_NanQueryYieldsNan ==
    (Done("interp") /\ len(args.xp) >= 1 /\ len(args.fp) = len(args.xp))
    => /\ ret.raised = "none"
       /\ \A q \in NaNQueries : PropagatesNaN(q)

\* With two samples or more each NaN query yields NaN without a search;
\* with exactly one sample every query, a NaN one included, yields fp[0],
\* also without a search.
C19_NanQueryYieldsNanTwoSamples ==
    (Done("interp") /\ len(args.xp) >= 1 /\ len(args.fp) = len(args.xp))
    => /\ ret.raised = "none"
       /\ len(args.xp) >= 2 => \A q \in NaNQueries : PropagatesNaN(q)
       /\ len(args.xp) = 1
            => /\ ret.searched = {}
               /\ \A q \in DOMAIN args.x : ret.dres[q].val = ToRat(args.fp[0])

\* A finite query that is searched, followed by a NaN query that is not.
C19_Witness ==
    /\ Done("interp") /\ ret.raised = "none"
    /\ len(args.xp) >= 2 /\ len(args.x) = 2
    /\ ~isnan(args.x[0]) /\ isnan(args.x[1])
    /\ ret.searched = {0}
    /\ RIsNaN(ret.dres[1].val)

(***************************************************************************)
(* C20: histogram with an array of bin edges                               *)
(***************************************************************************)
LastBin == len(args.bins) - 2

StrictlyIncreasing(bins) ==
    \A i \in 0..(len(bins) - 2) : less_than(bins[i], bins[i + 1])

NonDecreasing(bins) ==
    \A i \in 0..(len(bins) - 2) : le(bins[i], bins[i + 1])

\* v belongs to bin i: edges[i] <= v < edges[i + 1], or v is the last edge
\* and i the last bin.
InBin(v, i) ==
    \/ le(args.bins[i], v) /\ less_than(v, args.bins[i + 1])
    \/ i = LastBin /\ ~isnan(v) /\ v = args.bins[i + 1]

\* Every bin counts the values that belong to it and no other value, so a
\* value outside [first, last] or NaN is counted in no bin.
CountsByBin ==
    \A i \in 0..LastBin :
        ret.hist[i] = Cardinality({j \in DOMAIN args.a : InBin(args.a[j], i)})

BinsNonIncreasing(bins) ==
    \A i \in 0..(len(bins) - 2) : le(bins[i + 1], bins[i])

\* Some bin is strictly smaller than the bin before it.
BinsDecrease(bins) ==
    \E i \in 0..(len(bins) - 2) : less_than(bins[i + 1], bins[i])

\* The result for each non-NaN item of x on non-decreasing bins.
CountsIncreasing ==
    \A q \in DOMAIN args.x : ~isnan(args.x[q]) =>
        ret.out[q] = IF args.right
                     THEN Cardinality({j \in DOMAIN args.bins : less_than(args.bins[j], args.x[q])})
                     ELSE Cardinality({j \in DOMAIN args.bins : le(args.bins[j], args.x[q])})

\* The result for each non-NaN item of x on non-increasing bins.
CountsDecreasing ==
    \A q \in DOMAIN args.x : ~isnan(args.x[q]) =>
        ret.out[q] = IF args.right
                     THEN Cardinality({j \in DOMAIN args.bins : le(args.x[q], args.bins[j])})
                     ELSE Cardinality({j \in DOMAIN args.bins : less_than(args.x[q], args.bins[j])})

\* C21: digitize validates the bins once per call and raises ValueError
\* when they are neither non-decreasing nor non-increasing; for
\* non-decreasing bins and non-NaN x the result is the number of bins <= x
\* (right=False) or < x (right=True); for non-increasing bins it is the
\* number of bins > x (right=False) or >= x (right=True).
C21_Digitize ==
    Done("digitize")
    => /\ ret.validations = 1
       /\ (ret.raised = "ValueError")
            <=> (~NonDecreasing(args.bins) /\ ~BinsNonIncreasing(args.bins))
       /\ NonDecreasing(args.bins) => (ret.raised = "none" /\ CountsIncreasing)
       /\ BinsNonIncreasing(args.bins) => (ret.raised = "none" /\ CountsDecreasing)

\* The same for bins without NaN, with the decreasing rule kept for bins
\* that do decrease somewhere: constant bins, a single bin and no bin are
\* handled as non-decreasing bins.
C21_DigitizeDecreasingProper ==
    (Done("digitize") /\ NoNaN(args.bins))
    => /\ ret.validations = 1
       /\ (ret.raised = "ValueError")
            <=> (~NonDecreasing(args.bins) /\ ~BinsNonIncreasing(args.bins))
       /\ NonDecreasing(args.bins) => (ret.raised = "none" /\ CountsIncreasing)
       /\ (BinsNonIncreasing(args.bins) /\ BinsDecrease(args.bins))
            => (ret.raised = "none" /\ CountsDecreasing)

\* Decreasing bins 2, 1, 0 and the items 1 and -1 with right=False: one bin
\* is above 1 and three are above -1.
C21_Witness ==
    /\ Done("digitize") /\ ret.raised = "none" /\ ~args.right
    /\ len(args.bins) = 3
    /\ args.bins[0] = 2 /\ args.bins[1] = 1 /\ args.bins[2] = 0
    /\ len(args.x) = 2 /\ args.x[0] = 1 /\ args.x[1] = 0 - 1
    /\ ret.out[0] = 1 /\ ret.out[1] = 3

(***************************************************************************)
(* C22: sum with a negative axis                                           *)
(***************************************************************************)
\* The call is over: the resolution failed or the kernel has run.
SumAxisOver == op = "sum_axis" /\ (pc = "done" \/ (pc = "resolved" /\ ~ret.kernel))

\* The axis with the rank added when it is negative.
Normalized(axis, ndim) == IF axis < 0 THEN axis + ndim ELSE axis

\* What sum(arr, axis) leaves for an array of this shape: what it raised
\* and the shape of its result.
SumAxisOutcome(shape, literal, axis) ==
    IF array_sum_axis(len(shape), literal, axis).raised # "none"
    THEN [raised |-> array_sum_axis(len(shape), literal, axis).raised, shape |-> <<>>]
    ELSE [raised |-> array_sum_impl_axis(shape, literal,
                        IF literal THEN array_sum_axis(len(shape), literal, axis).const_axis_val
                        ELSE axis).raised,
          shape |-> array_sum_impl_axis(shape, literal,
                        IF literal THEN array_sum_axis(len(shape), literal, axis).const_axis_val
                        ELSE axis).shape]

StillOutOfRange(ndim, axis) == Normalized(axis, ndim) < 0 \/ Normalized(axis, ndim) >= ndim

SameAsNormalized ==
    /\ ret.raised = SumAxisOutcome(args.shape, args.literal,
                                   Normalized(args.axis, len(args.shape))).raised
    /\ ret.raised = "none"
         => ret.shape = PopAxis(args.shape, Normalized(args.axis, len(args.shape)))

\* C22: a negative axis is normalized by adding the rank, for a literal
\* axis and for a run-time axis: sum(arr, -1) is sum(arr, r - 1), and only
\* an axis still out of range after normalization raises.
C22_NegativeAxisNormalized ==
    SumAxisOver
    => /\ (ret.raised # "none") <=> StillOutOfRange(len(args.shape), args.axis)
       /\ (args.axis < 0 /\ Normalized(args.axis, len(args.shape)) >= 0)
            => SameAsNormalized

\* The same for a literal axis; a run-time axis is not normalized: it
\* raises when it is negative, greater than 3 or not below the rank.
C22_LiteralAxisNormalized ==
    SumAxisOver
    => /\ args.literal
            => /\ (ret.raised # "none") <=> StillOutOfRange(len(args.shape), args.axis)
               /\ (args.axis < 0 /\ Normalized(args.axis, len(args.shape)) >= 0)
                    => SameAsNormalized
       /\ ~args.literal
            => ((ret.raised # "none")
                  <=> (args.axis < 0 \/ args.axis > 3 \/ args.axis >= len(args.shape)))

\* sum(arr, -1) with a literal axis on an array of shape (1, 2).
C22_Witness ==
    /\ SumAxisOver /\ pc = "done" /\ args.literal /\ args.axis = 0 - 1
    /\ len(args.shape) = 2 /\ args.shape[0] = 1 /\ args.shape[1] = 2
    /\ ret.raised = "none"
    /\ len(ret.shape) = 1 /\ ret.shape[0] = 1

(***************************************************************************)
(* C23: percentile between two order statistics                            *)
(***************************************************************************)
\* rank * 100 for rank = 1 + (n - 1) * p / 100
Rank100(n, p) == 100 + (n - 1) * p

\* lower * (1 - m) + upper * m on the sorted array, with f = floor(rank)
\* and m = rank - f
BetweenRanks(a, f, m100) ==
    RAdd(RScale(ToRat(SortedAt(a, 0, len(a) - 1, f - 1)), 100 - m100, 100),
         RScale(ToRat(SortedAt(a, 0, len(a) - 1, f)), m100, 100))

SameFloat(r, s) == (RIsNaN(r) /\ RIsNaN(s)) \/ REq(r, s)

IsInterior(p) == ~isnan(p) /\ 0 < p /\ p < 100

InvalidDdof(ddof) == ddof.kind = "Float" /\ (~ddof.finite \/ ddof.v2 % 2 # 0)

\* C24: cov raises ValueError for a float ddof that is non-finite or not
\* integral on both paths, the matrix result and the scalar result of a
\* single 1-D variable: the handler is applied to ddof itself.
C24_InvalidDdofRejected ==
    (Done("cov") /\ InvalidDdof(args.ddof))
    => /\ ret.matrix.raised = "ValueError"
       /\ ret.scalar.raised = "ValueError"

\* The matrix path alone does reject it.
C24_MatrixPathRejects ==
    (Done("cov") /\ InvalidDdof(args.ddof)) => ret.matrix.raised = "ValueError"

(***************************************************************************)
(* C25: what one partitioning leaves                                       *)
(***************************************************************************)
\* The index returned is in the range and splits it around A[i]; the scans
\* stopped inside the range, so that no position outside it was read; the
\* positions outside the range hold what they held; nothing was lost.
PartitionPost ==
    /\ args.low <= ret.i /\ ret.i <= args.high
    /\ \A q \in args.low..(ret.i - 1) : le(ret.A[q], ret.A[ret.i])
    /\ \A q \in (ret.i + 1)..args.high : le(ret.A[ret.i], ret.A[q])
    /\ args.low - 1 <= ret.j /\ ret.j <= args.high - 1
    /\ \A q \in DOMAIN args.A : (q < args.low \/ q > args.high) => ret.A[q] = args.A[q]
    /\ IsPermutation(args.A, ret.A)

\* C25: for every array A and low <= high inside A, _partition(A, low, high)
\* returns i in [low, high] with A[low..i-1] <= A[i] <= A[i+1..high]; it
\* reads and writes only positions of [low, high] and leaves a permutation
\* of A.
C25_PartitionAnyArray ==
    Done("_partition") => PartitionPost

\* The same for every array without NaN, with either comparison.
C25_Partition ==
    (Done("_partition") /\ NoNaN(args.A)) => PartitionPost

\* A range inside a longer array, the pivot landing strictly inside it.
C25_Witness ==
    /\ Done("_partition") /\ NoNaN(args.A)
    /\ len(args.A) = 4 /\ args.low = 1 /\ args.high = 3
    /\ args.A[0] = 2 /\ args.A[1] = 2 /\ args.A[2] = 0 /\ args.A[3] = 1
    /\ ret.i = 2 /\ ret.A[0] = 2 /\ ret.A[2] = 1

(***************************************************************************)
(* C26: the selection routines terminate                                   *)
(***************************************************************************)
\* The range of the running state is strictly inside the range before.
Shrinks == (ret.high)' - (ret.low)' < ret.high - ret.low

\* An iteration of the loop of _select: the range shrinks and holds k.
SelectIteration ==
    (pc = "loop" /\ pc' = "loop")
    => (Shrinks /\ (ret.low)' <= (ret.k)' /\ (ret.k)' <= (ret.high)')

\* An iteration of the loop of _select_two: the range shrinks and holds k
\* and k + 1; the _select it ends with is called with its target in range.
SelectTwoIteration ==
    /\ (pc = "two" /\ pc' = "two")
         => (Shrinks /\ (ret.low)' <= (ret.k)' /\ (ret.k)' + 1 <= (ret.high)')
    /\ (pc = "two" /\ pc' = "loop")
         => ((ret.low)' <= (ret.k)' /\ (ret.k)' <= (ret.high)')

\* C26: every call of _partition with low <= high, of _select with
\* low <= k <= high and of _select_two with low <= k, k + 1 <= high
\* returns; each iteration of a selection loop strictly shrinks
\* [low, high] and keeps the target inside; the scans of _partition stop
\* within [low - 1, high].
C26_SelectionTerminates ==
    /\ <>(pc = "done")
    /\ [][SelectIteration /\ SelectTwoIteration]_vars
    /\ [](pc = "done" => ret.raised = "none")
    /\ [](Done("_partition") => (args.low - 1 <= ret.j /\ ret.i <= args.high))

\* A _select that narrowed its range from both sides before it returned.
C26_Witness ==
    /\ Done("_select")
    /\ ret.low > args.low /\ ret.high < args.high
    /\ ret.i = args.k

(***************************************************************************)
(* C27: bincount and negative elements                                     *)
(***************************************************************************)
HasNegative(a) == \E j \in DOMAIN a : a[j] < 0

\* C27: bincount raises ValueError for every array that holds a negative
\* element, the first one included, and then never calls count_item, so no
\* index outside the counts array is used.
C27_NegativeRaises ==
    (Done("bincount") /\ HasNegative(args.a)
     /\ validate_inputs(args.a, args.weighted, args.weights) = "none")
        => (ret.raised = "ValueError" /\ ret.writes = 0 /\ ~ret.wild)

\* What the code does guarantee: a negative element after the first one
\* raises before anything is counted.
C27_LaterNegativeRaises ==
    (Done("bincount") /\ (\E j \in DOMAIN args.a : j >= 1 /\ args.a[j] < 0))
        => (ret.raised = "ValueError" /\ ret.writes = 0 /\ ~ret.wild)

\* bincount([-1]): the store out[-1] on an array of length 0.
C27_WildStore == Done("bincount") /\ ret.wild

\* bincount([-1, 2]): no error and the negative element counted in bin 2.
C27_Miscounted ==
    /\ Done("bincount") /\ ~args.weighted
    /\ args.a = [j \in 0..1 |-> IF j = 0 THEN 0 - 1 ELSE 2]
    /\ ret.raised = "none" /\ ret.out = [j \in 0..2 |-> IF j = 2 THEN 2 ELSE 0]

(***************************************************************************)
(* C29: diff                                                               *)
(***************************************************************************)
\* The first-order difference, written directly.
FirstDifference(a) == [j \in 0..(len(a) - 2) |-> WrapInt(a[j + 1] - a[j])]

RECURSIVE DifferenceTimes(_, _)
DifferenceTimes(a, n) == IF n = 0 THEN a ELSE FirstDifference(DifferenceTimes(a, n - 1))

Max0(x) == IF x > 0 THEN x ELSE 0

\* C29: for n >= 1, diff(a, n) is the first-order difference applied n times,
\* it equals diff(diff(a, n - 1), 1), has length max(len(a) - n, 0) and holds
\* no element of the scratchpad that was never written; diff(a, 0) is a; a
\* negative n raises ValueError.
C29_DiffIterates ==
    Done("diff") =>
        /\ args.n >= 1 =>
             /\ ret.raised = "none"
             /\ ret.out = DifferenceTimes(args.a, args.n)
             /\ ret.out = diff_impl(diff_impl(args.a, args.n - 1).out, 1).out
             /\ len(ret.out) = Max0(len(args.a) - args.n)
             /\ \A j \in DOMAIN ret.out : ret.out[j] # Uninit
        /\ args.n = 0 => (ret.raised = "none" /\ ret.out = args.a)
        /\ args.n < 0 => ret.raised = "ValueError"

\* A second difference of at least two elements, one of them after a
\* subtraction that wrapped.
C29_Witness ==
    /\ Done("diff") /\ args.n = 2 /\ len(ret.out) >= 2
    /\ args.a[1] - args.a[0] > MaxInt
    /\ ret.out[0] # 0

(***************************************************************************)
(* C28: np.partition                                                       *)
(***************************************************************************)
\* The indices requested by kth, negative ones counted from the end.
RequestedKths(a, kth) ==
    {IF kth[i] < 0 THEN kth[i] + len(a) ELSE kth[i] : i \in DOMAIN kth}

ValidKth(a, kth) == \A i \in DOMAIN kth : Abs(kth[i]) < len(a)

\* out == v as the program's floats compare: NaN equals nothing.
float_eq(x, y) == ~isnan(x) /\ ~isnan(y) /\ x = y

PartitionCase == Done("partition") /\ len(args.a) >= 1 /\ ValidKth(args.a, args.kth)

\* C28 as stated: for a non-empty a and valid kth, np.partition(a, kth) is a
\* permutation out of a with, for every requested k, out[k] == sorted(a)[k],
\* every element of out[:k] <= out[k] and every element of out[k+1:] >= out[k].
C28_PartitionAnyArray ==
    PartitionCase =>
        /\ ret.raised = "none"
        /\ IsPermutation(ret.val, args.a)
        /\ \A k \in RequestedKths(args.a, args.kth) :
             /\ float_eq(ret.val[k], SortedAt(args.a, 0, len(args.a) - 1, k))
             /\ \A j \in DOMAIN ret.val : j < k => le(ret.val[j], ret.val[k])
             /\ \A j \in DOMAIN ret.val : j > k => le(ret.val[k], ret.val[j])

\* C28 (amended): the same in the order of a full sort, which places NaN
\* after every number and equal to itself; on a NaN-free a this is the
\* statement above.
C28_PartitionSortOrder ==
    PartitionCase =>
        /\ ret.raised = "none"
        /\ IsPermutation(ret.val, args.a)
        /\ \A k \in RequestedKths(args.a, args.kth) :
             /\ ret.val[k] = SortedAt(args.a, 0, len(args.a) - 1, k)
             /\ \A j \in DOMAIN ret.val : j < k => sort_le(ret.val[j], ret.val[k])
             /\ \A j \in DOMAIN ret.val : j > k => sort_le(ret.val[k], ret.val[j])
        /\ NoNaN(args.a) =>
             \A k \in RequestedKths(args.a, args.kth) :
                /\ float_eq(ret.val[k], SortedAt(args.a, 0, len(args.a) - 1, k))
                /\ \A j \in DOMAIN ret.val : j < k => le(ret.val[j], ret.val[k])
                /\ \A j \in DOMAIN ret.val : j > k => le(ret.val[k], ret.val[j])

\* Two distinct indices requested in descending order, the first one
\* negative, on an array that holds a NaN and had to be rearranged.
C28_Witness ==
    /\ PartitionCase /\ len(args.a) >= 3 /\ Len(args.kth) = 2
    /\ args.kth[1] = 0 - 1 /\ args.kth[2] = 0
    /\ ~NoNaN(args.a) /\ ret.val # args.a
    /\ ret.np >= 2

(***************************************************************************)
(* C30: the hint carried between interp queries                            *)
(***************************************************************************)
\* The value interp computes for the query x_val asked alone (hint 0).
AloneValue(np116, x_val, xp, fp) ==
    np_interp_impl(np116, [k \in 0..0 |-> x_val], xp, fp).dres[0].val

\* C30: the value stored for each query of an interp call equals the value
\* computed for that query alone with the initial hint 0, whatever queries
\* came before it; and the index the search returns on a sorted array does
\* not depend on the guess it is given.
C30_HintNeverChangesResult ==
    /\ (Done("interp") /\ ret.raised = "none") =>
          \A i \in DOMAIN args.x :
             ret.dres[i].val = AloneValue(args.np116, args.x[i], args.xp, args.fp)
    /\ Done("binary_search_with_guess") =>
          ret.j = binary_search_with_guess(args.key, args.arr, args.length, 0).j

\* The index the search returns for the query i of the call, asked alone.
AloneIndex(i) == binary_search_with_guess(args.x[i], args.xp, len(args.xp), 0).j

\* A second query searched with a hint beyond the cache window (the index
\* found for the first query) and landing below that window, its value
\* different from the first one's.
C30_Witness ==
    /\ Done("interp") /\ ret.raised = "none" /\ len(args.x) = 2
    /\ ~isnan(args.x[0]) /\ ~isnan(args.x[1])
    /\ AloneIndex(0) > LIKELY_IN_CACHE_SIZE + 1
    /\ AloneIndex(1) >= 0
    /\ AloneIndex(1) < AloneIndex(0) - LIKELY_IN_CACHE_SIZE - 1
    /\ ret.dres[1].val # ret.dres[0].val

====
